---- MODULE Spec2Model ----
(***************************************************************************)
(* Bot-Trainer-NLU: the NLU routes (train / predict / predict_batch), the  *)
(* active-learning selector (suggest), the span reconciler                 *)
(* (_deduplicate_entities), the evaluation route (evaluate) and the        *)
(* background-training routes (train/start, train/status) of               *)
(* src/backend/routes.                                                     *)
(*                                                                         *)
(* Conventions of the model                                                *)
(*   - probabilities, confidences, thresholds and span scores are integers *)
(*     in hundredths (0.99 is 99, 1.0 is 100);                             *)
(*   - Python's None is the record NoModel where a model object is       *)
(*     expected and NoLabels where a label list is;                        *)
(*   - texts are TLA+ strings over letters and blanks (no digits, no       *)
(*     punctuation), indexed from 1; offsets reported in spans are         *)
(*     Python's 0-based half-open offsets;                                 *)
(*   - a fitted scikit-learn / spaCy model is opaque library state: it is  *)
(*     a record of its class list and of w, the number of samples it was   *)
(*     fitted on, and its scores are a fixed function of (w, text);        *)
(*   - every request carries a valid Authorization header, so the 401      *)
(*     exits of the handlers are never taken.                              *)
(***************************************************************************)
EXTENDS Integers, Sequences, FiniteSets, TLC

VARIABLES
    spacy_textcat,        \* _spacy_textcat / _spacy_textcat_nlp (set together)
    rasa_intent_model,    \* _rasa_intent_model
    rasa_intent_labels,   \* _rasa_intent_labels
    nert_intent_model,    \* _nert_intent_model
    nert_intent_labels,   \* _nert_intent_labels
    crf_model,            \* _crf_model
    crf_loaded,           \* _crf_loaded
    nlp,                  \* _nlp : TRUE once a spaCy pipeline is loaded
    trainedWith,          \* history: engine -> label set of its last train call
    pc,                   \* "serve": waiting for a request; "answered": a response is out
                          \* ("reconcile" / "reconciled" when the reconciler runs alone)
    last,                 \* the last request and its response
    retrain,              \* a train call running statement by statement next to predict
    TRAIN_STATUS,         \* _TRAIN_STATUS of train_routes
    starts,               \* the /train/start requests in flight, by request thread
    workers               \* the _train_worker threads, by the request that started them

vars == <<spacy_textcat, rasa_intent_model, rasa_intent_labels, nert_intent_model,
          nert_intent_labels, crf_model, crf_loaded, nlp, trainedWith, pc, last,
          retrain, TRAIN_STATUS, starts, workers>>

background == <<retrain, TRAIN_STATUS, starts, workers>>

slots == <<spacy_textcat, rasa_intent_model, rasa_intent_labels, nert_intent_model,
           nert_intent_labels, crf_model, crf_loaded, nlp>>

-----------------------------------------------------------------------------
(* Bounds of the model *)

\* longest list of texts in a predict_batch / suggest request
MaxBatch == 2
\* longest list of texts, labels or records in a train request
MaxTrain == 2
\* longest list of spans handed to the reconciler on its own
MaxSpans == 3

-----------------------------------------------------------------------------
(* Strings: Python's str.strip(), str.lower(), str.find(), str.split() *)

UpperAlpha == "ABCDEFGHIJKLMNOPQRSTUVWXYZ"
LowerAlpha == "abcdefghijklmnopqrstuvwxyz"

CharAt(s, i) == SubSeq(s, i, i)

IsSpace(c) == c = " "

IsAlpha(c) == \E i \in 1..26 : c = CharAt(UpperAlpha, i) \/ c = CharAt(LowerAlpha, i)

LowerChar(c) ==
    IF \E i \in 1..26 : c = CharAt(UpperAlpha, i)
    THEN CharAt(LowerAlpha, CHOOSE i \in 1..26 : c = CharAt(UpperAlpha, i))
    ELSE c

RECURSIVE Lower(_)
Lower(s) == IF s = "" THEN "" ELSE LowerChar(CharAt(s, 1)) \o Lower(Tail(s))

RECURSIVE LStrip(_)
LStrip(s) == IF s # "" /\ IsSpace(CharAt(s, 1)) THEN LStrip(Tail(s)) ELSE s

RECURSIVE RStrip(_)
RStrip(s) ==
    IF s # "" /\ IsSpace(CharAt(s, Len(s))) THEN RStrip(SubSeq(s, 1, Len(s) - 1)) ELSE s

Strip(s) == RStrip(LStrip(s))

\* str.find(sub, from): 0-based index of the first occurrence at or after
\* the 0-based position from, or -1
Find(s, sub, from) ==
    LET hits == {i \in from..(Len(s) - Len(sub)) : SubSeq(s, i + 1, i + Len(sub)) = sub}
    IN  IF hits = {} THEN -1 ELSE CHOOSE i \in hits : \A j \in hits : i <= j

Contains(s, sub) == Find(s, sub, 0) # -1

\* s[a:b] with 0 <= a <= b
Slice(s, a, b) == SubSeq(s, a + 1, IF b > Len(s) THEN Len(s) ELSE b)

\* str.split(): the maximal runs of non-blank characters
RECURSIVE SplitFrom(_, _, _)
SplitFrom(s, i, cur) ==
    IF i > Len(s)
    THEN IF cur = "" THEN <<>> ELSE <<cur>>
    ELSE IF IsSpace(CharAt(s, i))
         THEN (IF cur = "" THEN <<>> ELSE <<cur>>) \o SplitFrom(s, i + 1, "")
         ELSE SplitFrom(s, i + 1, cur \o CharAt(s, i))

Split(s) == SplitFrom(s, 1, "")

-----------------------------------------------------------------------------
(* The span reconciler: _deduplicate_entities                               *)
(* A span is [text, label, score, start, end]. Every caller in the program  *)
(* passes integer offsets (the extractors compute them, the Rasa branch     *)
(* converts them with int()), so offsets are integers here; a span whose    *)
(* offsets are not 0 <= start < end is keyed by its text.                   *)

\* the IoU from which two same-label spans count as duplicates, in hundredths
IouThreshold == 80

Max(a, b) == IF a >= b THEN a ELSE b

Min(a, b) == IF a <= b THEN a ELSE b

\* norm_text: strip blanks, then strip quotes and punctuation (the texts of
\* the model hold no punctuation, so the second strip removes nothing)
NormText(s) == Strip(s)

WellFormed(e) == e.start >= 0 /\ e.end > e.start

DedupKey(e) ==
    IF WellFormed(e)
    THEN [offsets |-> TRUE, label |-> Lower(e.label), start |-> e.start, end |-> e.end, text |-> ""]
    ELSE [offsets |-> FALSE, label |-> Lower(e.label), start |-> 0, end |-> 0,
          text |-> NormText(Lower(e.text))]

\* a wrong variant of ReplacesPrev: the first span of a key is never replaced
KeepsPrev(e, prev) == FALSE

\* the replacement test of the first pass: e replaces prev under the same key
ReplacesPrev(e, prev) ==
    \/ e.score > prev.score
    \/ e.score = prev.score /\ (e.end - e.start) > (prev.end - prev.start)

\* by_key after the first pass, as the sequence of its (key, value) items in
\* insertion order (a Python dict keeps a key's position when it is reassigned)
RECURSIVE ByKey(_, _)
ByKey(entities, acc) ==
    IF entities = <<>> THEN acc
    ELSE LET e == Head(entities)
             key == DedupKey(e)
             at == {i \in 1..Len(acc) : acc[i].key = key}
         IN  IF at = {}
             THEN ByKey(Tail(entities), Append(acc, [key |-> key, value |-> e]))
             ELSE LET i == CHOOSE k \in at : TRUE
                  IN  IF ReplacesPrev(e, acc[i].value)
                      THEN ByKey(Tail(entities), [acc EXCEPT ![i].value = e])
                      ELSE ByKey(Tail(entities), acc)

\* a wrong variant of IouAtLeastThreshold: the overlap must exceed the threshold
IouAboveThreshold(a, b) ==
    LET inter == Max(0, Min(a.end, b.end) - Max(a.start, b.start))
        union == (a.end - a.start) + (b.end - b.start) - inter
    IN  inter # 0 /\ union > 0 /\ 100 * inter > IouThreshold * union

\* iou(a, b) >= 0.8, on integers: inter / union >= IouThreshold / 100
IouAtLeastThreshold(a, b) ==
    LET inter == Max(0, Min(a.end, b.end) - Max(a.start, b.start))
        union == (a.end - a.start) + (b.end - b.start) - inter
    IN  inter # 0 /\ union > 0 /\ 100 * inter >= IouThreshold * union

\* a wrong variant of SortByScoreDesc: the list is left in insertion order
InsertionOrder(seq) == seq

\* list.sort(key=score, reverse=True): stable, descending
RECURSIVE SortByScoreDesc(_)
SortByScoreDesc(seq) ==
    IF seq = <<>> THEN <<>>
    ELSE LET rest == SortByScoreDesc(SubSeq(seq, 1, Len(seq) - 1))
             e == seq[Len(seq)]
             k == Cardinality({i \in 1..Len(rest) : rest[i].score >= e.score})
         IN  SubSeq(rest, 1, k) \o <<e>> \o SubSeq(rest, k + 1, Len(rest))

\* the second pass keeps e unless an accepted span of its label overlaps it
Suppressed(e, final) ==
    \E i \in 1..Len(final) :
        /\ Lower(e.label) = Lower(final[i].label)
        /\ IouAtLeastThreshold(e, final[i])

RECURSIVE GreedyAccept(_, _)
GreedyAccept(deduped, final) ==
    IF deduped = <<>> THEN final
    ELSE IF Suppressed(Head(deduped), final)
         THEN GreedyAccept(Tail(deduped), final)
         ELSE GreedyAccept(Tail(deduped), Append(final, Head(deduped)))

DeduplicateEntities(entities) ==
    IF entities = <<>> THEN <<>>
    ELSE LET by_key == ByKey(entities, <<>>)
             deduped == [i \in 1..Len(by_key) |-> by_key[i].value]
         IN  GreedyAccept(SortByScoreDesc(deduped), <<>>)

-----------------------------------------------------------------------------
(* Token offsets and BIO tags: _tokenize_for_crf, _token_offsets,           *)
(* _spans_to_bio_tags, _bio_to_spans                                        *)

\* the score _bio_to_spans gives every span of the sequence tagger
BioSpanScore == 90

UpperChar(c) ==
    IF \E i \in 1..26 : c = CharAt(LowerAlpha, i)
    THEN CharAt(UpperAlpha, CHOOSE i \in 1..26 : c = CharAt(LowerAlpha, i))
    ELSE c

RECURSIVE Upper(_)
Upper(s) == IF s = "" THEN "" ELSE UpperChar(CharAt(s, 1)) \o Upper(Tail(s))

\* nltk.word_tokenize, or str.split() when nltk is missing: the same tokens
\* on texts of letters and blanks
TokenizeForCrf(text) == Split(text)

RECURSIVE TokenOffsetsFrom(_, _, _)
TokenOffsetsFrom(text_lower, tokens, cursor) ==
    IF tokens = <<>> THEN <<>>
    ELSE LET token == Head(tokens)
             token_lower == Lower(token)
             found == Find(text_lower, token_lower, cursor)
             again == IF found = -1 THEN Find(text_lower, token_lower, 0) ELSE found
             idx == IF again = -1 THEN cursor ELSE again
         IN  <<[start |-> idx, end |-> idx + Len(token)]>>
             \o TokenOffsetsFrom(text_lower, Tail(tokens),
                                 Max(idx + Len(token), cursor + Len(token)))

TokenOffsets(text, tokens) == TokenOffsetsFrom(Lower(text), tokens, 0)

\* the tags after the entities ents[1..k] have been written over "O"
RECURSIVE SpansToBioTagsUpTo(_, _, _, _)
SpansToBioTagsUpTo(tokens, ents, offsets, k) ==
    IF k = 0 THEN [i \in 1..Len(tokens) |-> "O"]
    ELSE LET prev == SpansToBioTagsUpTo(tokens, ents, offsets, k - 1)
             ent == ents[k]
             label_str == Upper(Strip(ent.label))
             token_indices == {i \in 1..Len(tokens) :
                                   offsets[i].end > ent.start /\ offsets[i].start < ent.end}
         IN  IF ent.end <= ent.start \/ label_str = "" \/ token_indices = {}
             THEN prev
             ELSE LET first == CHOOSE i \in token_indices : \A j \in token_indices : i <= j
                  IN  [i \in 1..Len(tokens) |->
                          IF i = first THEN "B-" \o label_str
                          ELSE IF i \in token_indices THEN "I-" \o label_str
                          ELSE prev[i]]

SpansToBioTags(tokens, entities, text) ==
    IF tokens = <<>> \/ entities = <<>>
    THEN [i \in 1..Len(tokens) |-> "O"]
    ELSE SpansToBioTagsUpTo(tokens, entities, TokenOffsets(text, tokens), Len(entities))

RECURSIVE BioToSpansFrom(_, _, _, _)
BioToSpansFrom(labels, offsets, text, i) ==
    IF i > Len(labels) THEN <<>>
    ELSE LET tag == labels[i]
         IN  IF Len(tag) >= 2 /\ SubSeq(tag, 1, 2) = "B-"
             THEN LET core == SubSeq(tag, 3, Len(tag))
                      run == {j \in (i + 1)..Len(labels) :
                                 \A m \in (i + 1)..j : labels[m] = "I-" \o core}
                      j == IF run = {} THEN i ELSE CHOOSE x \in run : \A y \in run : y <= x
                      start == offsets[i].start
                      end == offsets[j].end
                  IN  <<[text |-> Slice(text, start, end), label |-> Lower(core),
                         start |-> start, end |-> end, score |-> BioSpanScore]>>
                      \o BioToSpansFrom(labels, offsets, text, j + 1)
             ELSE BioToSpansFrom(labels, offsets, text, i + 1)

\* a wrong variant of BioToSpans: a span stops at the end of its B- token
BioToSpansNoRun(tokens, labels, text) ==
    LET offsets == TokenOffsets(text, tokens)
        heads == {i \in 1..Len(labels) : Len(labels[i]) >= 2 /\ SubSeq(labels[i], 1, 2) = "B-"}
        Nth(k) == CHOOSE i \in heads : Cardinality({h \in heads : h <= i}) = k
    IN  IF tokens = <<>> \/ labels = <<>> THEN <<>>
        ELSE [k \in 1..Cardinality(heads) |->
                 [text |-> Slice(text, offsets[Nth(k)].start, offsets[Nth(k)].end),
                  label |-> Lower(SubSeq(labels[Nth(k)], 3, Len(labels[Nth(k)]))),
                  start |-> offsets[Nth(k)].start, end |-> offsets[Nth(k)].end,
                  score |-> BioSpanScore]]

BioToSpans(tokens, labels, text) ==
    IF tokens = <<>> \/ labels = <<>> THEN <<>>
    ELSE BioToSpansFrom(labels, TokenOffsets(text, tokens), text, 1)

-----------------------------------------------------------------------------
(* The rule extractors: _extract_food_entities, _extract_health_entities,   *)
(* _extract_travel_entities.                                                *)
(* The model covers texts of letters and blanks. On such texts every        *)
(* pattern that needs a digit (quantities, dosages, durations, dates by     *)
(* number, times, passenger counts, AC classes) matches nothing; what is    *)
(* left are the vocabulary scans and the travel patterns of words (from/to, *)
(* today/tomorrow/next), modelled in full, and the health patterns of words *)
(* (once/twice/thrice, "dr Name"), which ExtractHealthEntities refuses      *)
(* instead of guessing at.                                                  *)

\* sorted(words, key=len, reverse=True): stable, longest first
RECURSIVE SortByLenDesc(_)
SortByLenDesc(words) ==
    IF words = <<>> THEN <<>>
    ELSE LET rest == SortByLenDesc(SubSeq(words, 1, Len(words) - 1))
             w == words[Len(words)]
             k == Cardinality({i \in 1..Len(rest) : Len(rest[i]) >= Len(w)})
         IN  SubSeq(rest, 1, k) \o <<w>> \o SubSeq(rest, k + 1, Len(rest))

\* add_span: one span at the first occurrence of sub, found by str.find
AddSpan(t, sub, label, score) ==
    LET start == Find(Lower(t), Lower(sub), 0)
    IN  IF start = -1 THEN <<>>
        ELSE <<[text |-> Slice(t, start, start + Len(sub)), label |-> label,
                score |-> score, start |-> start, end |-> start + Len(sub)]>>

RECURSIVE AddSpans(_, _, _, _)
AddSpans(t, words, label, score) ==
    IF words = <<>> THEN <<>>
    ELSE AddSpan(t, Head(words), label, score) \o AddSpans(t, Tail(words), label, score)

\* add_span_word: one span per match of (?<![A-Za-z])word(?![A-Za-z]),
\* scanning left to right without overlap as re.finditer does
RECURSIVE AddSpanWordFrom(_, _, _, _, _)
AddSpanWordFrom(t, word, label, score, from) ==
    LET tl == Lower(t)
        hits == {i \in from..(Len(tl) - Len(word)) :
                    /\ SubSeq(tl, i + 1, i + Len(word)) = word
                    /\ (i = 0 \/ ~IsAlpha(CharAt(tl, i)))
                    /\ (i + Len(word) = Len(tl) \/ ~IsAlpha(CharAt(tl, i + Len(word) + 1)))}
    IN  IF hits = {} THEN <<>>
        ELSE LET s == CHOOSE i \in hits : \A j \in hits : i <= j
             IN  <<[text |-> Slice(t, s, s + Len(word)), label |-> label,
                    score |-> score, start |-> s, end |-> s + Len(word)]>>
                 \o AddSpanWordFrom(t, word, label, score, s + Len(word))

RECURSIVE AddSpanWords(_, _, _, _)
AddSpanWords(t, words, label, score) ==
    IF words = <<>> THEN <<>>
    ELSE AddSpanWordFrom(t, Head(words), label, score, 0)
         \o AddSpanWords(t, Tail(words), label, score)

ContainsAny(t, words) == \E i \in 1..Len(words) : Contains(Lower(t), words[i])

FoodItems ==
    <<"pizza", "pepperoni pizza", "margherita", "burger", "veg burger", "chicken burger",
      "sandwich", "club sandwich", "fries", "biryani", "veg biryani", "chicken biryani",
      "noodles", "fried rice", "pasta", "taco", "wrap", "salad", "idli", "dosa", "paratha",
      "paneer", "butter chicken", "paneer tikka">>

Beverages ==
    <<"coffee", "tea", "coke", "pepsi", "sprite", "fanta", "juice", "lassi", "milkshake">>

WordNumbers == <<"one", "two", "three", "four", "five", "single", "double", "triple">>

Sizes == <<"small", "medium", "large", "regular", "jumbo", "family">>

ExtractFoodEntities(text) ==
    AddSpans(text, SortByLenDesc(FoodItems), "food_item", 99)
    \o AddSpans(text, SortByLenDesc(Beverages), "beverage", 99)
    \o AddSpans(text, WordNumbers, "quantity", 90)
    \o AddSpans(text, Sizes, "size", 95)

Symptoms ==
    <<"fever", "cough", "cold", "flu", "headache", "migraine", "sore throat", "throat pain",
      "chest pain", "stomach ache", "abdominal pain", "back pain", "vomiting", "diarrhea",
      "dizziness", "fatigue", "rash">>

BodyParts ==
    <<"head", "chest", "stomach", "abdomen", "back", "leg", "arm", "eye", "ear", "nose",
      "throat", "knee", "shoulder">>

Medications ==
    <<"paracetamol", "acetaminophen", "ibuprofen", "amoxicillin", "azithromycin", "metformin",
      "insulin", "aspirin", "omeprazole", "pantoprazole", "dolo 650", "crocin",
      "ciprofloxacin">>

Tests ==
    <<"blood test", "cbc", "liver function test", "lft", "kidney function test", "kft",
      "x-ray", "ct scan", "mri", "ultrasound", "thyroid test", "tsh", "sugar test", "hba1c",
      "ecg">>

Specialties ==
    <<"dermatology", "dermatologist", "cardiology", "cardiologist", "orthopedic",
      "orthopedics", "ent", "gynecology", "gynecologist", "pediatrics", "pediatrician",
      "neurologist", "neurology">>

\* the word patterns of the health extractor that are not vocabulary scans
HealthPatternWords == <<"once", "twice", "thrice", "dr">>

ExtractHealthEntities(text) ==
    CASE ~ContainsAny(text, HealthPatternWords) ->
        AddSpanWords(text, Symptoms, "symptom", 98)
        \o AddSpanWords(text, BodyParts, "body_part", 98)
        \o AddSpanWords(text, SortByLenDesc(Medications), "medication", 98)
        \o AddSpanWords(text, SortByLenDesc(Tests), "test_name", 98)
        \o AddSpanWords(text, Specialties, "specialty", 98)

\* [a-zA-Z ], the character class of the from/to patterns
InClass(c) == IsAlpha(c) \/ IsSpace(c)

\* \b at the 0-based position i of s (on texts of letters and blanks a word
\* character is a letter)
WordBoundary(s, i) ==
    (i > 0 /\ IsAlpha(CharAt(s, i))) # (i < Len(s) /\ IsAlpha(CharAt(s, i + 1)))

\* s holds w at the 0-based position i
StartsAt(s, i, w) == i >= 0 /\ i + Len(w) <= Len(s) /\ SubSeq(s, i + 1, i + Len(w)) = w

\* the n characters of s from the 0-based position i are blanks
Blanks(s, i, n) == i + n <= Len(s) /\ \A k \in 1..n : IsSpace(CharAt(s, i + k))

\* the n characters of s from the 0-based position i are in [a-zA-Z ]
AllInClass(s, i, n) == i + n <= Len(s) /\ \A k \in 1..n : InClass(CharAt(s, i + k))

\* the bounds of [a-zA-Z ]{2,40}
GroupMin == 2
GroupMax == 40

\* the matches <<n, len>> of \s+([a-zA-Z ]{2,40})\b at the position u
GroupMatches(tl, u) ==
    UNION {{<<n, len>> : len \in {l \in GroupMin..GroupMax :
                                     /\ AllInClass(tl, u + n, l)
                                     /\ WordBoundary(tl, u + n + l)}} :
           n \in {k \in 1..(Len(tl) - u) : Blanks(tl, u, k)}}

MaxOf(S) == CHOOSE x \in S : \A y \in S : y <= x

MinOf(S) == CHOOSE x \in S : \A y \in S : x <= y

\* the group of the match with n blanks before it: the longest one
BestGroupAfter(ms, u, n) ==
    [start |-> u + n, end |-> u + n + MaxOf({m[2] : m \in {x \in ms : x[1] = n}})]

\* the match a backtracking search takes: the longest \s+, then the longest group
BestGroup(tl, u) ==
    BestGroupAfter(GroupMatches(tl, u), u, MaxOf({m[1] : m \in GroupMatches(tl, u)}))

\* the lengths n of \s+ at q for which \s+to\s+([a-zA-Z ]{2,40})\b matches at q
ToMatches(tl, q) ==
    {n \in 1..(Len(tl) - q) :
        /\ Blanks(tl, q, n)
        /\ StartsAt(tl, q + n, "to")
        /\ GroupMatches(tl, q + n + 2) # {}}

\* the matches <<s, n, len>> of
\* \bfrom\s+([a-zA-Z ]{2,40})\s+to\s+([a-zA-Z ]{2,40})\b up to its first group
FromMatches(tl) ==
    UNION {UNION {{<<s, n, len>> : len \in {l \in GroupMin..GroupMax :
                                               /\ AllInClass(tl, s + 4 + n, l)
                                               /\ ToMatches(tl, s + 4 + n + l) # {}}} :
                  n \in {k \in 1..(Len(tl) - s) : Blanks(tl, s + 4, k)}} :
           s \in {i \in 0..(Len(tl) - 4) : StartsAt(tl, i, "from") /\ WordBoundary(tl, i)}}

\* lines 1027-1029: the spans of the two groups
FromToEmit(t, s1, s2) ==
    <<[text |-> Slice(t, s1.start, s1.end), label |-> "source", score |-> 97,
       start |-> s1.start, end |-> s1.end],
      [text |-> Slice(t, s2.start, s2.end), label |-> "destination", score |-> 97,
       start |-> s2.start, end |-> s2.end]>>

\* the second group, after the longest \s+ before "to" that allows a match
FromToSecond(t, tl, s1) ==
    FromToEmit(t, s1, BestGroup(tl, s1.end + MaxOf(ToMatches(tl, s1.end)) + 2))

\* the first group of the match m = <<s, n, len>>
FromToFirst(t, tl, m) ==
    FromToSecond(t, tl, [start |-> m[1] + 4 + m[2], end |-> m[1] + 4 + m[2] + m[3]])

\* among the matches with the longest first \s+, the longest first group
FromToLongest(t, tl, atS) ==
    FromToFirst(t, tl,
                CHOOSE m \in atS :
                    /\ m[2] = MaxOf({x[2] : x \in atS})
                    /\ \A x \in atS : x[2] = m[2] => x[3] <= m[3])

FromToLeftmost(t, tl, ms) ==
    IF ms = {} THEN <<>>
    ELSE FromToLongest(t, tl, {m \in ms : m[1] = MinOf({x[1] : x \in ms})})

\* re.search of the from/to pattern: the leftmost match, every quantifier as
\* long as the rest of the pattern allows, the earlier quantifier first
FromToSpans(t) == FromToLeftmost(t, Lower(t), FromMatches(Lower(t)))

\* the positions at which \bto\s+([a-zA-Z ]{2,40})\b matches
ToStarts(tl) ==
    {u \in 0..(Len(tl) - 2) :
        /\ StartsAt(tl, u, "to")
        /\ WordBoundary(tl, u)
        /\ GroupMatches(tl, u + 2) # {}}

ToEmit(t, s) ==
    <<[text |-> Slice(t, s.start, s.end), label |-> "destination", score |-> 95,
       start |-> s.start, end |-> s.end]>>

ToLeftmost(t, tl, starts_) ==
    IF starts_ = {} THEN <<>> ELSE ToEmit(t, BestGroup(tl, MinOf(starts_) + 2))

\* re.search of \bto\s+([a-zA-Z ]{2,40})\b
ToSpans(t) == ToLeftmost(t, Lower(t), ToStarts(Lower(t)))

\* the day names of the date pattern
WeekDays ==
    {"mon", "tue", "wed", "thu", "thur", "fri", "sat", "sun", "monday", "tuesday",
     "wednesday", "thursday", "friday", "saturday", "sunday"}

\* the matches <<n, day>> of next\s+(?:mon|...|sunday)\b at the position i
NextMatches(tl, i) ==
    {m \in (1..(Len(tl) - i)) \X WeekDays :
        /\ StartsAt(tl, i, "next")
        /\ Blanks(tl, i + 4, m[1])
        /\ StartsAt(tl, i + 4 + m[1], m[2])
        /\ WordBoundary(tl, i + 4 + m[1] + Len(m[2]))}

\* tl holds the word w from the position i to a word boundary
WordAt(tl, i, w) == StartsAt(tl, i, w) /\ WordBoundary(tl, i + Len(w))

\* the length of the match of
\* \b(?:today|tomorrow|day after tomorrow|next\s+(?:mon|...|sunday))\b
\* at the position i of tl, 0 when there is none
DateAt(tl, i) ==
    IF ~WordBoundary(tl, i) THEN 0
    ELSE IF WordAt(tl, i, "today") THEN 5
    ELSE IF WordAt(tl, i, "tomorrow") THEN 8
    ELSE IF WordAt(tl, i, "day after tomorrow") THEN 18
    ELSE IF NextMatches(tl, i) # {}
         THEN 4 + MaxOf({m[1] + Len(m[2]) : m \in NextMatches(tl, i)})
    ELSE 0

\* re.finditer of the date pattern of words: the matches from left to right,
\* none overlapping another
RECURSIVE DateSpansFrom(_, _)
RECURSIVE DateSpansStep(_, _, _)
DateSpansStep(t, i, len) ==
    IF len = 0 THEN DateSpansFrom(t, i + 1)
    ELSE <<[text |-> Slice(t, i, i + len), label |-> "date", score |-> 90,
            start |-> i, end |-> i + len]>>
         \o DateSpansFrom(t, i + len)

DateSpansFrom(t, i) ==
    IF i >= Len(t) THEN <<>> ELSE DateSpansStep(t, i, DateAt(Lower(t), i))

\* the keywords of _has_travel_context
TravelKeywords ==
    <<"train", "railway", "bus", "coach", "flight", "plane", "airport", "station",
      "pnr", "ticket", "tickets", "booking", "reservation", "seat", "berth", "sleeper">>

TravelClasses == <<"economy", "business", "first class", "sleeper">>

TravelQuotas ==
    <<"tatkal", "premium tatkal", "ladies quota", "senior citizen", "general quota", "general">>

\* the length of the match of \bnon[ -]?ac\b at the position i, 0 for none
NonAcAt(tl, i) ==
    IF ~WordBoundary(tl, i) THEN 0
    ELSE IF WordAt(tl, i, "non ac") THEN 6
    ELSE IF WordAt(tl, i, "nonac") THEN 5
    ELSE 0

\* re.finditer of \bnon[ -]?ac\b
RECURSIVE NonAcSpansFrom(_, _)
RECURSIVE NonAcSpansStep(_, _, _)
NonAcSpansStep(t, i, len) ==
    IF len = 0 THEN NonAcSpansFrom(t, i + 1)
    ELSE <<[text |-> Slice(t, i, i + len), label |-> "class", score |-> 92,
            start |-> i, end |-> i + len]>>
         \o NonAcSpansFrom(t, i + len)

NonAcSpansFrom(t, i) ==
    IF i >= Len(t) THEN <<>> ELSE NonAcSpansStep(t, i, NonAcAt(Lower(t), i))

\* the class and quota rules, which run when the text holds a travel keyword
ClassAndQuotaSpans(t) ==
    IF ~ContainsAny(t, TravelKeywords) THEN <<>>
    ELSE AddSpans(t, TravelClasses, "class", 92)
         \o AddSpanWordFrom(t, "ac", "class", 92, 0)
         \o NonAcSpansFrom(t, 0)
         \o AddSpans(t, TravelQuotas, "quota", 90)

\* on texts of letters and blanks the patterns of dates by number, of times,
\* of the classes 3a, 2a, 1a and of passenger counts match nothing
ExtractTravelEntities(text) ==
    FromToSpans(text) \o ToSpans(text) \o DateSpansFrom(text, 0) \o ClassAndQuotaSpans(text)

\* the rule spans predict adds to every engine's entities
Supplemental(text) ==
    ExtractTravelEntities(text) \o ExtractFoodEntities(text) \o ExtractHealthEntities(text)

-----------------------------------------------------------------------------
(* Intent classifiers: _train_text_classifier, the NERT-lite classifier of  *)
(* train_nert, _extract_classes, _predict_with_confidence                   *)
(* A model is [kind, classes, proba, w]: proba tells whether the object has *)
(* a predict_proba method (LogisticRegression and the Rasa-lite majority    *)
(* classifier have one; LinearSVC and the NERT-lite majority classifier,    *)
(* which defines decision_function instead, have none).                     *)

\* the labels of the model in Python's string order, for sorted(set(...))
LabelOrder == <<"a", "b">>

\* the default confidence of the rasa branch of predict, in hundredths
RasaDefaultConf == 95

\* None, where a model object is expected
NoModel == [kind |-> "none"]

\* None, where a label list is expected (the list of a trained slot is never
\* empty)
NoLabels == <<>>

IsNone(model) == model.kind = "none"

\* str(l).strip().lower()
NormLabel(l) == Lower(Strip(l))

IsMember(x, S) == x \in S

\* sorted({...}) of the normalised labels
UniqueLabels(labels) ==
    LET present == {NormLabel(labels[i]) : i \in 1..Len(labels)}
    IN  SelectSeq(LabelOrder, LAMBDA l : IsMember(l, present))

MajorityClassifier(label, has_proba) ==
    [kind |-> "majority", classes |-> <<label>>, proba |-> has_proba, w |-> 0]

\* a fitted Pipeline or textcat: its classes_ and the parameters w it fitted
FittedModel(kind, classes, has_proba, w) ==
    [kind |-> kind, classes |-> classes, proba |-> has_proba, w |-> w]

\* _train_text_classifier: "error" stands for the ValueError it raises
TrainTextClassifier(texts, labels, w) ==
    IF texts = <<>> \/ labels = <<>> \/ Len(texts) # Len(labels)
    THEN [ok |-> FALSE, model |-> NoModel, classes |-> <<>>]
    ELSE LET unique_labels == UniqueLabels(labels)
         IN  IF unique_labels = <<>>
             THEN [ok |-> FALSE, model |-> NoModel, classes |-> <<>>]
             ELSE IF Len(unique_labels) = 1
             THEN [ok |-> TRUE, model |-> MajorityClassifier(unique_labels[1], TRUE),
                   classes |-> unique_labels]
             ELSE [ok |-> TRUE, model |-> FittedModel("pipeline", unique_labels, TRUE, w),
                   classes |-> unique_labels]

\* the intent part of train_nert, from the normalised intents of the records
TrainNertClassifier(labels, w) ==
    LET unique_labels == UniqueLabels(labels)
    IN  IF Len(unique_labels) = 1
        THEN [model |-> MajorityClassifier(unique_labels[1], FALSE), classes |-> unique_labels]
        ELSE [model |-> FittedModel("pipeline", unique_labels, FALSE, w),
              classes |-> unique_labels]

ExtractClasses(model) == model.classes

\* the class scores a fitted model gives a text, one per class, in hundredths
\* and summing to 100: the fitted function, fixed by (w, text)
ClassScores(model, text) ==
    LET n == Len(model.classes)
        k == model.w + Len(text)
        win == (k % n) + 1
        top == IF k % 2 = 0 THEN 80 ELSE 55
    IN  IF model.kind = "majority" \/ n = 1 THEN <<100>>
        ELSE [i \in 1..n |-> IF i = win THEN top ELSE (100 - top) \div (n - 1)]

ArgMax(scores) ==
    CHOOSE i \in 1..Len(scores) :
        /\ \A j \in 1..Len(scores) : scores[j] <= scores[i]
        /\ \A j \in 1..(i - 1) : scores[j] < scores[i]

\* model.predict([text])[0]
ModelPredict(model, text) ==
    IF model.kind = "majority" THEN model.classes[1]
    ELSE model.classes[ArgMax(ClassScores(model, text))]

IndexOf(seq, x) ==
    IF \E i \in 1..Len(seq) : seq[i] = x
    THEN CHOOSE i \in 1..Len(seq) : seq[i] = x /\ \A j \in 1..(i - 1) : seq[j] # x
    ELSE 0

\* a wrong variant of PredictWithConfidence: the default, whatever the model
PredictWithDefault(model, text, default_confidence) ==
    [intent |-> ModelPredict(model, text), confidence |-> RasaDefaultConf]

PredictWithConfidence(model, text, default_confidence) ==
    LET intent_str == ModelPredict(model, text)
        classes == ExtractClasses(model)
    IN  IF model.proba
        THEN LET probabilities == ClassScores(model, text)
             IN  IF classes # <<>> /\ Len(probabilities) = Len(classes)
                 THEN [intent |-> intent_str,
                       confidence |-> IF IndexOf(classes, intent_str) # 0
                                      THEN probabilities[IndexOf(classes, intent_str)]
                                      ELSE default_confidence]
                 ELSE IF Len(probabilities) = 1
                 THEN [intent |-> intent_str, confidence |-> probabilities[1]]
                 ELSE [intent |-> intent_str, confidence |-> default_confidence]
        ELSE \* predict_proba is missing: AttributeError, the except branch
             [intent |-> intent_str,
              confidence |-> IF classes = <<intent_str>> THEN 100 ELSE default_confidence]

-----------------------------------------------------------------------------
(* Requests of the model *)

RECURSIVE SeqsUpTo(_, _)
SeqsUpTo(S, n) ==
    IF n = 0 THEN {<<>>}
    ELSE LET shorter == SeqsUpTo(S, n - 1)
         IN  shorter \cup {Append(q, x) : q \in {p \in shorter : Len(p) = n - 1}, x \in S}

\* labels as a caller writes them
RawLabels == {"a", " B"}

\* texts of a request: blank ones, and ones with and without entities
RawTexts == {"", "  ", "go", " pizza tea "}

\* model_id of a request: absent, an engine, a disabled engine
ModelIds == {"none", "rasa", "NERT", "hf"}

TrainTexts == SeqsUpTo({"go"}, MaxTrain)

TrainLabels == SeqsUpTo(RawLabels, MaxTrain)

TeaSpan == [text |-> "tea", label |-> "drink", start |-> 6, end |-> 9]

NertRecords ==
    {[text |-> "go", intent |-> l, entities |-> <<>>] : l \in RawLabels}
    \cup {[text |-> "pizza tea", intent |-> l, entities |-> <<TeaSpan>>] : l \in RawLabels}

TrainRecords == SeqsUpTo(NertRecords, MaxTrain)

\* texts of a predict_batch request
BatchRawTexts == {"  ", "go", " pizza tea "}

\* texts of a suggest request
SuggestTexts == {"", "go", " pizza tea "}

\* the text lists of a predict_batch and of a suggest request, and the
\* actual_intents of a suggest request
BatchTexts == SeqsUpTo(BatchRawTexts, MaxBatch)

SuggestTextLists == SeqsUpTo(SuggestTexts, MaxBatch)

ActualIntents == SeqsUpTo(RawLabels, MaxBatch)

\* thresholds of a suggest request: none, zero, and values between and above
\* the confidences of the model
Thresholds == {<<>>, <<0>>, <<60>>, <<100>>}

\* model_id of a suggest request
SuggestModelIds == {"none", "rasa"}

\* spans handed to the reconciler: same and different labels, labels in
\* mixed case, overlaps at, above and below the IoU threshold, equal keys,
\* and offsets that are not 0 <= start < end
DedupSpans ==
    {[text |-> "pizza", label |-> "food", score |-> 99, start |-> 0, end |-> 5],
     [text |-> "pizz", label |-> "Food", score |-> 90, start |-> 0, end |-> 4],
     [text |-> "izza", label |-> "food", score |-> 99, start |-> 1, end |-> 5],
     [text |-> "pizza", label |-> "drink", score |-> 90, start |-> 0, end |-> 5],
     [text |-> "pizza", label |-> "food", score |-> 90, start |-> 0, end |-> 5],
     [text |-> "piz", label |-> "FOOD", score |-> 95, start |-> 0, end |-> 3],
     [text |-> " Pizz ", label |-> "food", score |-> 95, start |-> 0 - 1, end |-> 4],
     [text |-> "tea", label |-> "food", score |-> 90, start |-> 6, end |-> 6],
     [text |-> "pi", label |-> "food", score |-> 90, start |-> 0, end |-> 2]}

-----------------------------------------------------------------------------
(* The prediction engine: predict and predict_batch                         *)
(* The operators work on a record st of the module globals, so that a       *)
(* handler's result can be computed in any state; env is what the world     *)
(* outside the process does during one request:                             *)
(*   nlpOk      spacy.load finds an installed pipeline                      *)
(*   rasaUp     the Rasa server or a local Rasa interpreter answers         *)
(*   crfDisk    models/crf_ner/model.pkl exists and loads                   *)
(*   crfRaises  the sequence tagger raises while tagging                    *)

Globals ==
    [spacy |-> spacy_textcat, rasa |-> rasa_intent_model, nert |-> nert_intent_model,
     crf |-> crf_model, crf_loaded |-> crf_loaded, nlp |-> nlp]

Envs == [nlpOk : BOOLEAN, rasaUp : BOOLEAN, crfDisk : BOOLEAN, crfRaises : BOOLEAN]

\* the default confidence of the nert branch of predict, in hundredths
NertDefaultConf == 90

\* a sequence tagger is the set of (lower-cased token, tag) pairs it learned
DiskCrf == [kind |-> "crf", memory |-> {<<"go", "B-ACTION">>}]

\* what a Rasa server answers: some intent, no entities
ExternalRasaParse(text) == [intent |-> "Greet", confidence |-> 40, entities |-> <<>>]

\* the entities of the installed spaCy pipeline: none on the texts of the model
SpacyEntities(text) == <<>>

\* _try_load_crf, called when _crf_model is None
TryLoadCrf(st, env) ==
    IF st.crf_loaded THEN st
    ELSE IF env.crfDisk
         THEN [st EXCEPT !.crf_loaded = TRUE, !.crf = DiskCrf]
         ELSE [st EXCEPT !.crf_loaded = TRUE]

\* crf.predict / predict_marginals_single: the tag of each token
CrfLabels(crf, tokens) ==
    [i \in 1..Len(tokens) |->
        IF \E p \in crf.memory : p[1] = Lower(tokens[i])
        THEN (CHOOSE p \in crf.memory : p[1] = Lower(tokens[i]))[2]
        ELSE "O"]

\* the "if crf: try ... except: pass" block of the rasa and nert branches
CrfEntities(crf, text, raises) ==
    IF IsNone(crf) \/ raises THEN <<>>
    ELSE LET tokens == TokenizeForCrf(text)
         IN  BioToSpans(tokens, CrfLabels(crf, tokens), text)

\* the (token, tag) pairs of the tagged training records
CrfMemory(records) ==
    UNION {LET tokens == TokenizeForCrf(records[r].text)
               tags == SpansToBioTags(tokens, records[r].entities, records[r].text)
           IN  {<<Lower(tokens[i]), tags[i]>> : i \in {k \in 1..Len(tokens) : tags[k] # "O"}}
           : r \in 1..Len(records)}

\* the "Train CRF entities when annotations available" block of train_nert:
\* the new tagger, or None
TrainCrf(records, crfLib) ==
    IF \A r \in 1..Len(records) : records[r].entities = <<>> THEN NoModel
    ELSE IF ~crfLib THEN NoModel
    ELSE LET memory == CrfMemory(records)
         IN  IF memory = {} THEN NoModel ELSE [kind |-> "crf", memory |-> memory]

\* the entities of the rasa and nert branches: tagger spans and rule spans,
\* reconciled
TrainedEntities(crf, text, raises) ==
    DeduplicateEntities(CrfEntities(crf, text, raises) \o Supplemental(text))

\* the entities of the spaCy branch
SpacyBranchEntities(text) == DeduplicateEntities(SpacyEntities(text) \o Supplemental(text))

(* The string work of the handlers on the requests of the model, computed   *)
(* once: each table holds the operator of its name applied to every         *)
(* argument the model can pass.                                             *)

StripTable == [t \in RawTexts \cup {Strip(t) : t \in RawTexts} |-> Strip(t)]

ModelTexts == {StripTable[t] : t \in RawTexts} \ {""}

TrainCrfTable == [records \in TrainRecords |-> TrainCrf(records, TRUE)]

ModelCrfs == {NoModel, DiskCrf} \cup {TrainCrfTable[records] : records \in TrainRecords}

TrainedEntitiesTable ==
    [crf \in ModelCrfs, t \in ModelTexts |-> TrainedEntities(crf, t, FALSE)]

SpacyBranchEntitiesTable == [t \in ModelTexts |-> SpacyBranchEntities(t)]

NormLabelTable == [l \in RawLabels |-> NormLabel(l)]

IntentTable ==
    [i \in {LabelOrder[k] : k \in 1..Len(LabelOrder)} \cup {ExternalRasaParse("").intent}
        |-> Lower(Strip(i))]

EngineTable == [m \in ModelIds \cup {"spacy", "nert"} |-> Lower(m)]

Ok(st, intent, confidence, entities) ==
    [status |-> 200, intent |-> intent, confidence |-> confidence, entities |-> entities,
     detail |-> "", st |-> st]

Raise(st, code, detail) ==
    [status |-> code, intent |-> "", confidence |-> 0, entities |-> <<>>,
     detail |-> detail, st |-> st]

\* the branch of a trained rasa or nert classifier
PredictTrained(st, model, text, default_conf, env) ==
    LET classes == ExtractClasses(model)
        pwc == PredictWithConfidence(model, text, IF Len(classes) > 1 THEN default_conf ELSE 100)
        st2 == IF ~IsNone(st.crf) THEN st ELSE TryLoadCrf(st, env)
        crf == IF env.crfRaises THEN NoModel ELSE st2.crf
    IN  Ok(st2, pwc.intent, pwc.confidence, TrainedEntitiesTable[crf, text])

\* the default branch: the spaCy engine
PredictSpacy(st, text, env) ==
    IF IsNone(st.spacy)
    THEN Raise(st, 503, "spaCy textcat model not trained")
    ELSE IF ~st.nlp /\ ~env.nlpOk
    THEN Raise(st, 500, "Failed to load spaCy model")
    ELSE LET st2 == [st EXCEPT !.nlp = TRUE]
             entities == SpacyBranchEntitiesTable[text]
             probs == ClassScores(st.spacy, text)
             label_data == st.spacy.classes
         IN  IF Len(probs) = 0
             THEN Raise(st2, 500, "spaCy intent model returned no scores")
             ELSE IF label_data # <<>> /\ Len(label_data) = Len(probs)
             THEN Ok(st2, label_data[ArgMax(probs)], probs[ArgMax(probs)], entities)
             ELSE Raise(st2, 500, "Unable to determine intent from spaCy textcat scores")

\* the body of predict's try block, for the trimmed text and the engine name
PredictBody(st, text, engine, env) ==
    IF engine = "rasa"
    THEN IF ~IsNone(st.rasa)
         THEN PredictTrained(st, st.rasa, text, RasaDefaultConf, env)
         ELSE IF env.rasaUp
              THEN LET res == ExternalRasaParse(text)
                   IN  Ok(st, res.intent, res.confidence, DeduplicateEntities(res.entities))
              ELSE Raise(st, 503, "Rasa interpreter not available")
    ELSE IF engine = "nert"
    THEN IF IsNone(st.nert)
         THEN Raise(st, 503, "NERT intent model not trained")
         ELSE PredictTrained(st, st.nert, text, NertDefaultConf, env)
    ELSE IF engine \in {"intent", "hf", "transformer"}
    THEN Raise(st, 503, "HF-based intent models are disabled")
    ELSE PredictSpacy(st, text, env)

\* (payload.model_id or "spacy").lower(); "none" is an absent model_id
EngineOf(model_id) == IF model_id = "none" \/ model_id = "" THEN "spacy" ELSE EngineTable[model_id]

\* "except Exception as e: raise HTTPException(500, f'Prediction failed: {e}')"
\* catches the HTTPExceptions the body raises as well
WrapFailure(r) ==
    IF r.status = 200 THEN r
    ELSE [r EXCEPT !.status = 500, !.detail = "Prediction failed: " \o r.detail]

\* predict: the handler
PredictHandler(st, text, model_id, env) ==
    LET t == StripTable[text]
    IN  IF t = "" THEN Raise(st, 400, "Text is required")
        ELSE WrapFailure(PredictBody(st, t, EngineOf(model_id), env))

\* the entry of predict_batch for a text that is blank after trimming
BlankEntry(t) == [text |-> t, intent |-> "unknown", confidence |-> 0, error |-> "none"]

\* the entry of predict_batch for a text whose predict raised
ErrorEntry(t, detail) == [text |-> t, intent |-> "error", confidence |-> 0, error |-> detail]

\* a wrong variant of SingleEntry: a failed call is reported like a blank text
SingleEntryUnknown(t, single) ==
    IF single.status = 200
    THEN [entry |-> [text |-> t, intent |-> IntentTable[single.intent],
                     confidence |-> single.confidence, error |-> "none"],
          st |-> single.st]
    ELSE [entry |-> BlankEntry(t), st |-> single.st]

\* the try / except around the call of predict for the trimmed text t:
\* single is what the call returned or raised
SingleEntry(t, single) ==
    IF single.status = 200
    THEN [entry |-> [text |-> t, intent |-> IntentTable[single.intent],
                     confidence |-> single.confidence, error |-> "none"],
          st |-> single.st]
    ELSE [entry |-> ErrorEntry(t, single.detail), st |-> single.st]

\* one pass of predict_batch's loop: the entry appended, and the globals after
BatchEntry(st, text, engine, env) ==
    IF StripTable[text] = "" THEN [entry |-> BlankEntry(""), st |-> st]
    ELSE SingleEntry(StripTable[text], PredictHandler(st, StripTable[text], engine, env))

\* results.append(...)
BatchAppend(results, item) == [results |-> Append(results, item.entry), st |-> item.st]

\* a wrong variant of BatchPass: an item whose predict raised is dropped
BatchPassDropping(before, text, engine, env) ==
    IF BatchEntry(before.st, text, engine, env).entry.intent = "error"
    THEN before
    ELSE BatchAppend(before.results, BatchEntry(before.st, text, engine, env))

\* one pass of the loop after the passes that gave before
BatchPass(before, text, engine, env) ==
    BatchAppend(before.results, BatchEntry(before.st, text, engine, env))

\* the loop of predict_batch over texts[1..k]
RECURSIVE BatchLoop(_, _, _, _, _)
BatchLoop(st, texts, engine, env, k) ==
    IF k = 0 THEN [results |-> <<>>, st |-> st]
    ELSE BatchPass(BatchLoop(st, texts, engine, env, k - 1), texts[k], engine, env)

\* return {"predictions": results}
BatchResponse(loop) == [status |-> 200, predictions |-> loop.results, st |-> loop.st]

\* predict_batch: the handler
PredictBatchHandler(st, texts, model_id, env) ==
    IF texts = <<>>
    THEN [status |-> 400, predictions |-> <<>>, st |-> st]
    ELSE BatchResponse(BatchLoop(st, texts, EngineOf(model_id), env, Len(texts)))

-----------------------------------------------------------------------------
(* The active-learning selector: suggest_uncertain_samples                   *)
(* threshold is <<>> when the request carries none (the field is left out   *)
(* or null) and <<t>> when it carries t; actual_intents is <<>> when the    *)
(* request carries none. is_wrong is "true", "false" or "null".             *)

\* the default of SuggestRequest.threshold, in hundredths
DefaultThreshold == 50

\* SuggestRequest.threshold after validation: the default when left out
PayloadThreshold(threshold) == IF threshold = <<>> THEN <<DefaultThreshold>> ELSE threshold

\* "thr = float(payload.threshold or 0.5)": a zero threshold is falsy
ThresholdUsed(threshold) ==
    LET given == PayloadThreshold(threshold)
    IN  IF given[1] = 0 THEN DefaultThreshold ELSE given[1]

\* a wrong variant of HasLabels: any list of labels counts
HasSomeLabels(texts, actual_intents) == actual_intents # <<>>

HasLabels(texts, actual_intents) == Len(actual_intents) = Len(texts)

BatchIntents ==
    {"unknown", "error"}
    \cup {Lower(LabelOrder[k]) : k \in 1..Len(LabelOrder)}
    \cup {Lower(Strip(ExternalRasaParse("").intent))}

PredictedTable == [i \in BatchIntents |-> Lower(Strip(i))]

SuggestedItem(p, is_wrong) ==
    [text |-> p.text, predicted_intent |-> p.intent, predicted_confidence |-> p.confidence,
     is_wrong |-> is_wrong]

\* a wrong variant of SuggestItem: a confident wrong prediction is left out
SuggestItemUnsure(p, idx, has_labels, actual_intents, thr) ==
    IF p.confidence > thr THEN <<>>
    ELSE IF has_labels /\ idx <= Len(actual_intents)
    THEN IF PredictedTable[p.intent] # NormLabelTable[actual_intents[idx]]
         THEN <<SuggestedItem(p, "true")>>
         ELSE <<SuggestedItem(p, "false")>>
    ELSE <<SuggestedItem(p, "null")>>

\* one pass of the loop over preds: the items it appends (none or one)
SuggestItem(p, idx, has_labels, actual_intents, thr) ==
    LET predicted == PredictedTable[p.intent]
    IN  IF has_labels /\ idx <= Len(actual_intents)
        THEN IF predicted # NormLabelTable[actual_intents[idx]]
             THEN <<SuggestedItem(p, "true")>>
             ELSE IF p.confidence <= thr THEN <<SuggestedItem(p, "false")>> ELSE <<>>
        ELSE IF p.confidence <= thr THEN <<SuggestedItem(p, "null")>> ELSE <<>>

RECURSIVE SuggestLoop(_, _, _, _, _)
SuggestLoop(preds, k, has_labels, actual_intents, thr) ==
    IF k = 0 THEN <<>>
    ELSE SuggestLoop(preds, k - 1, has_labels, actual_intents, thr)
         \o SuggestItem(preds[k], k, has_labels, actual_intents, thr)

\* the sort key (not is_wrong, predicted_confidence), compared as Python
\* compares tuples; "not None" and "not False" are both True
SortKeyLeq(x, y) ==
    LET kx == IF x.is_wrong = "true" THEN 0 ELSE 1
        ky == IF y.is_wrong = "true" THEN 0 ELSE 1
    IN  kx < ky \/ (kx = ky /\ x.predicted_confidence <= y.predicted_confidence)

\* items.sort(key=...): stable, ascending
RECURSIVE SortItems(_)
SortItems(items) ==
    IF items = <<>> THEN <<>>
    ELSE LET rest == SortItems(SubSeq(items, 1, Len(items) - 1))
             x == items[Len(items)]
             k == Cardinality({i \in 1..Len(rest) : SortKeyLeq(rest[i], x)})
         IN  SubSeq(rest, 1, k) \o <<x>> \o SubSeq(rest, k + 1, Len(rest))

\* a wrong variant of SuggestItems: the items are left in input order
SuggestItemsUnsorted(preds, texts, actual_intents, thr) ==
    SuggestLoop(preds, Len(preds), HasLabels(texts, actual_intents), actual_intents, thr)

\* the filter and the sort of suggest, from the predictions of the batch
SuggestItems(preds, texts, actual_intents, thr) ==
    SortItems(SuggestLoop(preds, Len(preds), HasLabels(texts, actual_intents),
                          actual_intents, thr))

\* suggest after the batch call: raw is what predict_batch returned
SuggestResponse(raw, texts, actual_intents, thr) ==
    [status |-> 200, predictions |-> raw.predictions, threshold |-> thr,
     items |-> SuggestItems(raw.predictions, texts, actual_intents, thr),
     filtering_strategy |->
         IF HasLabels(texts, actual_intents) THEN "smart" ELSE "confidence_only",
     st |-> raw.st]

\* suggest: the handler
SuggestHandler(st, texts, actual_intents, model_id, threshold, env) ==
    IF texts = <<>>
    THEN [status |-> 400, predictions |-> <<>>, threshold |-> 0, items |-> <<>>,
          filtering_strategy |-> "", st |-> st]
    ELSE SuggestResponse(
             PredictBatchHandler(st, texts, IF model_id = "none" THEN "spacy" ELSE model_id, env),
             texts, actual_intents, ThresholdUsed(threshold))

-----------------------------------------------------------------------------
(* Training: train_spacy_intent, train_rasa_intent, train_nert              *)
(* fitFails: the library raises inside the handler's try block (a missing   *)
(* package, a failing fit); crfLib: sklearn_crfsuite imports and fits.      *)
(* A fitted model records the number of samples it was fitted on.           *)

\* a wrong variant of InvalidArrays: only empty lists are refused
InvalidArraysEmpty(texts, labels) == texts = <<>> \/ labels = <<>>

InvalidArrays(texts, labels) == texts = <<>> \/ labels = <<>> \/ Len(texts) # Len(labels)

NormLabels(labels) == [i \in 1..Len(labels) |-> NormLabelTable[labels[i]]]

TrainResult(st, status, labels) == [status |-> status, labels |-> labels, st |-> st]

TrainSpacyIntent(st, texts, labels, fitFails) ==
    LET cleared == [st EXCEPT !.spacy = NoModel]
    IN  IF InvalidArrays(texts, labels) THEN TrainResult(cleared, 400, <<>>)
        ELSE IF fitFails THEN TrainResult(cleared, 500, <<>>)
        ELSE LET classes == UniqueLabels(NormLabels(labels))
             IN  TrainResult([cleared EXCEPT
                                 !.spacy = FittedModel("textcat", classes, TRUE, Len(texts))],
                             200, classes)

TrainRasaIntent(st, texts, labels, fitFails) ==
    LET cleared == [st EXCEPT !.rasa = NoModel]
    IN  IF InvalidArrays(texts, labels) THEN TrainResult(cleared, 400, <<>>)
        ELSE IF fitFails THEN TrainResult(cleared, 500, <<>>)
        ELSE LET fit == TrainTextClassifier(texts, NormLabels(labels), Len(texts))
             IN  IF fit.ok
                 THEN TrainResult([cleared EXCEPT !.rasa = fit.model], 200, fit.classes)
                 ELSE TrainResult(cleared, 500, <<>>)

TrainNert(st, records, fitFails, crfLib) ==
    LET cleared == [st EXCEPT !.nert = NoModel, !.crf = NoModel]
    IN  IF records = <<>> THEN TrainResult(cleared, 400, <<>>)
        ELSE IF fitFails THEN TrainResult(cleared, 500, <<>>)
        ELSE LET labels == [i \in 1..Len(records) |-> NormLabelTable[records[i].intent]]
                 fit == TrainNertClassifier(labels, Len(records))
                 crf == IF crfLib THEN TrainCrfTable[records] ELSE NoModel
                 trained == [cleared EXCEPT !.nert = fit.model]
             IN  IF ~IsNone(crf)
                 THEN TrainResult([trained EXCEPT !.crf = crf, !.crf_loaded = TRUE],
                                  200, fit.classes)
                 ELSE TrainResult(trained, 200, fit.classes)

-----------------------------------------------------------------------------
(* The state machine of the routes: a request is handled in one step        *)
(* (pc: serve -> answered, its response in last), then the response leaves  *)
(* (answered -> serve).                                                     *)

Engines == {"spacy", "rasa", "nert"}

MaxStarts == 2    \* /train/start request threads (each may start one worker)

Starters == 1..MaxStarts

\* no train call is running next to predict
NoRetrain == [at |-> "idle"]

\* _TRAIN_STATUS as the module defines it; None is <<>>, a value v is <<v>>,
\* a timestamp is abstracted to TRUE
IdleStatus ==
    [state |-> "idle", progress |-> 0, message |-> "", started_at |-> <<>>,
     finished_at |-> <<>>, error |-> <<>>]

NoCall == [at |-> 0]

Quiet ==
    /\ retrain = NoRetrain
    /\ TRAIN_STATUS = IdleStatus
    /\ starts = [r \in Starters |-> [pc |-> "idle", call |-> NoCall]]
    /\ workers = [w \in Starters |-> [pc |-> "none", call |-> NoCall]]

NoRequest == [request |-> [op |-> "none"], response |-> <<>>]

\* the environment of a request to an engine: what the engine never reads
\* stays FALSE
EnvsFor(engine) ==
    {env \in Envs :
        /\ env.nlpOk => engine = "spacy"
        /\ env.rasaUp => engine = "rasa"
        /\ (env.crfDisk \/ env.crfRaises) => engine \in {"rasa", "nert"}}

\* a handler that leaves a slot's model alone leaves its label list alone
Install(st) ==
    /\ spacy_textcat' = st.spacy
    /\ rasa_intent_model' = st.rasa
    /\ rasa_intent_labels' = IF st.rasa = rasa_intent_model THEN rasa_intent_labels
                             ELSE IF IsNone(st.rasa) THEN NoLabels ELSE st.rasa.classes
    /\ nert_intent_model' = st.nert
    /\ nert_intent_labels' = IF st.nert = nert_intent_model THEN nert_intent_labels
                             ELSE IF IsNone(st.nert) THEN NoLabels ELSE st.nert.classes
    /\ crf_model' = st.crf
    /\ crf_loaded' = st.crf_loaded
    /\ nlp' = st.nlp

LabelSet(labels) == {NormLabelTable[labels[i]] : i \in 1..Len(labels)}

\* the response r of a train call with these labels and this many texts or
\* records goes out
Trained(engine, r, labels, samples) ==
    /\ Install(r.st)
    /\ trainedWith' = [trainedWith EXCEPT
                          ![engine] = IF r.status = 200 THEN LabelSet(labels) ELSE {}]
    /\ last' = [request |-> [op |-> "train", engine |-> engine, labels |-> labels,
                              samples |-> samples],
                response |-> [r EXCEPT !.st = <<>>]]
    /\ pc' = "answered"
    /\ UNCHANGED background

Init ==
    /\ spacy_textcat = NoModel
    /\ rasa_intent_model = NoModel
    /\ rasa_intent_labels = NoLabels
    /\ nert_intent_model = NoModel
    /\ nert_intent_labels = NoLabels
    /\ crf_model = NoModel
    /\ crf_loaded = FALSE
    /\ nlp = FALSE
    /\ trainedWith = [e \in Engines |-> {}]
    /\ pc = "serve"
    /\ last = NoRequest
    /\ Quiet

TrainSpacy ==
    /\ pc = "serve"
    /\ \E texts \in TrainTexts, labels \in TrainLabels, fitFails \in BOOLEAN :
          Trained("spacy", TrainSpacyIntent(Globals, texts, labels, fitFails), labels,
                  Len(texts))

TrainRasa ==
    /\ pc = "serve"
    /\ \E texts \in TrainTexts, labels \in TrainLabels, fitFails \in BOOLEAN :
          Trained("rasa", TrainRasaIntent(Globals, texts, labels, fitFails), labels,
                  Len(texts))

TrainNertLite ==
    /\ pc = "serve"
    /\ \E records \in TrainRecords, fitFails \in BOOLEAN, crfLib \in BOOLEAN :
          Trained("nert", TrainNert(Globals, records, fitFails, crfLib),
                  [i \in 1..Len(records) |-> records[i].intent], Len(records))

\* the handler's response r goes out
Answered(request, r) ==
    /\ Install(r.st)
    /\ last' = [request |-> request, response |-> [r EXCEPT !.st = <<>>]]
    /\ pc' = "answered"
    /\ UNCHANGED <<trainedWith, background>>

Predict ==
    /\ pc = "serve"
    /\ \E text \in RawTexts, model_id \in ModelIds :
       \E env \in EnvsFor(EngineOf(model_id)) :
          Answered([op |-> "predict", model_id |-> model_id, text |-> text],
                   PredictHandler(Globals, text, model_id, env))

\* a predict_batch call is answered
BatchCall(texts, model_id, env) ==
    Answered([op |-> "predict_batch", model_id |-> model_id, texts |-> texts,
              before |-> Globals, env |-> env],
             PredictBatchHandler(Globals, texts, model_id, env))

PredictBatch ==
    /\ pc = "serve"
    /\ \E texts \in BatchTexts, model_id \in ModelIds :
       \E env \in EnvsFor(EngineOf(model_id)) : BatchCall(texts, model_id, env)

Respond ==
    /\ pc = "answered"
    /\ pc' = "serve"
    /\ last' = NoRequest
    /\ UNCHANGED <<slots, trainedWith, background>>

Next == TrainSpacy \/ TrainRasa \/ TrainNertLite \/ Predict \/ Respond

Spec == Init /\ [][Next]_vars

NextBatch == TrainSpacy \/ TrainRasa \/ TrainNertLite \/ PredictBatch \/ Respond

SpecBatch == Init /\ [][NextBatch]_vars

(* suggest, on the rasa engine and on the never-trained default engine *)

\* a suggest call is answered
SuggestCall(texts, actual_intents, model_id, threshold, env) ==
    Answered([op |-> "suggest", model_id |-> model_id, texts |-> texts,
              actual_intents |-> actual_intents, threshold |-> threshold],
             SuggestHandler(Globals, texts, actual_intents, model_id, threshold, env))

Suggest ==
    /\ pc = "serve"
    /\ \E texts \in SuggestTextLists, actual_intents \in ActualIntents,
          threshold \in Thresholds, model_id \in SuggestModelIds :
       \E env \in EnvsFor(EngineOf(model_id)) :
          SuggestCall(texts, actual_intents, model_id, threshold, env)

NextSuggest == TrainRasa \/ Suggest \/ Respond

SpecSuggest == Init /\ [][NextSuggest]_vars

(* the reconciler on its own: a list of spans, then its reconciliation *)

InitDedup ==
    /\ spacy_textcat = NoModel
    /\ rasa_intent_model = NoModel
    /\ rasa_intent_labels = NoLabels
    /\ nert_intent_model = NoModel
    /\ nert_intent_labels = NoLabels
    /\ crf_model = NoModel
    /\ crf_loaded = FALSE
    /\ nlp = FALSE
    /\ trainedWith = [e \in Engines |-> {}]
    /\ Quiet
    /\ pc = "reconcile"
    /\ last \in {[request |-> [op |-> "reconcile", entities |-> e], response |-> <<>>] :
                   e \in SeqsUpTo(DedupSpans, MaxSpans)}

Reconcile ==
    /\ pc = "reconcile"
    /\ pc' = "reconciled"
    /\ last' = [last EXCEPT !.response = DeduplicateEntities(last.request.entities)]
    /\ UNCHANGED <<slots, trainedWith, background>>

NextDedup == Reconcile

SpecDedup == InitDedup /\ [][NextDedup]_vars

-----------------------------------------------------------------------------
(* A train call of rasa-lite or NERT-lite next to predict calls.  The        *)
(* routes are plain def handlers, which the server runs on worker threads,  *)
(* and no lock guards the slots: the train call is taken statement by       *)
(* statement (retrain.at names its next statement), and predict calls run   *)
(* between its statements.                                                  *)

statusVars == <<TRAIN_STATUS, starts, workers>>

RetrainTexts(labels) == [i \in 1..Len(labels) |-> "go"]

\* the records of a NERT-lite call: one without and one with an entity
RetrainRecords ==
    SeqsUpTo({[text |-> "go", intent |-> "a", entities |-> <<>>],
              [text |-> "pizza tea", intent |-> " B", entities |-> <<TeaSpan>>]}, MaxTrain)

\* the train calls: rasa-lite with labels, NERT-lite with records
RetrainCalls ==
    {[engine |-> "rasa", labels |-> l, records |-> <<>>, fitFails |-> f, crfLib |-> FALSE] :
        l \in TrainLabels, f \in BOOLEAN}
    \cup {[engine |-> "nert", labels |-> <<>>, records |-> r, fitFails |-> f, crfLib |-> c] :
            r \in RetrainRecords, f \in BOOLEAN, c \in BOOLEAN}

\* the call as the handler of its engine computes it, on the globals st
RetrainResult(st, call) ==
    IF call.engine = "rasa"
    THEN TrainRasaIntent(st, RetrainTexts(call.labels), call.labels, call.fitFails)
    ELSE TrainNert(st, call.records, call.fitFails, call.crfLib)

\* the labels of the call, as written
RetrainLabelsOf(call) ==
    IF call.engine = "rasa" THEN call.labels
    ELSE [i \in 1..Len(call.records) |-> call.records[i].intent]

\* the call arrives and its Authorization header passes
TrainCall ==
    /\ retrain.at = "idle"
    /\ \E call \in RetrainCalls :
          retrain' = [at |-> "clear_model", call |-> call, old |-> Globals,
                      model |-> NoModel, crf |-> NoModel]
    /\ UNCHANGED <<slots, trainedWith, pc, last, statusVars>>

\* _rasa_intent_model = None / _nert_intent_model = None
ClearModel ==
    /\ retrain.at = "clear_model"
    /\ IF retrain.call.engine = "rasa"
       THEN rasa_intent_model' = NoModel /\ UNCHANGED nert_intent_model
       ELSE nert_intent_model' = NoModel /\ UNCHANGED rasa_intent_model
    /\ trainedWith' = [trainedWith EXCEPT ![retrain.call.engine] = {}]
    /\ retrain' = [retrain EXCEPT !.at = "clear_labels"]
    /\ UNCHANGED <<spacy_textcat, rasa_intent_labels, nert_intent_labels, crf_model,
                   crf_loaded, nlp, pc, last, statusVars>>

\* _rasa_intent_labels = None / _nert_intent_labels = None
ClearLabels ==
    /\ retrain.at = "clear_labels"
    /\ IF retrain.call.engine = "rasa"
       THEN rasa_intent_labels' = NoLabels /\ UNCHANGED nert_intent_labels
       ELSE nert_intent_labels' = NoLabels /\ UNCHANGED rasa_intent_labels
    /\ retrain' = [retrain EXCEPT
                      !.at = IF retrain.call.engine = "nert" THEN "clear_crf" ELSE "fit"]
    /\ UNCHANGED <<spacy_textcat, rasa_intent_model, nert_intent_model, crf_model,
                   crf_loaded, nlp, trainedWith, pc, last, statusVars>>

\* _crf_model = None (train_nert only)
ClearCrf ==
    /\ retrain.at = "clear_crf"
    /\ crf_model' = NoModel
    /\ retrain' = [retrain EXCEPT !.at = "fit"]
    /\ UNCHANGED <<spacy_textcat, rasa_intent_model, rasa_intent_labels,
                   nert_intent_model, nert_intent_labels, crf_loaded, nlp, trainedWith,
                   pc, last, statusVars>>

\* the call after its validation and its fits, which touch locals only: it
\* has raised (400 or 500) and is over, or it holds the fitted models
Fitted(r) ==
    IF r.status # 200 THEN NoRetrain
    ELSE [retrain EXCEPT
             !.at = "set_model",
             !.model = IF retrain.call.engine = "rasa" THEN r.st.rasa ELSE r.st.nert,
             !.crf = IF retrain.call.engine = "rasa" THEN NoModel ELSE r.st.crf]

Fit ==
    /\ retrain.at = "fit"
    /\ retrain' = Fitted(RetrainResult(Globals, retrain.call))
    /\ UNCHANGED <<slots, trainedWith, pc, last, statusVars>>

\* _rasa_intent_model = model / _nert_intent_model = intent_model
SetModel ==
    /\ retrain.at = "set_model"
    /\ IF retrain.call.engine = "rasa"
       THEN rasa_intent_model' = retrain.model /\ UNCHANGED nert_intent_model
       ELSE nert_intent_model' = retrain.model /\ UNCHANGED rasa_intent_model
    /\ trainedWith' = [trainedWith EXCEPT
                          ![retrain.call.engine] = LabelSet(RetrainLabelsOf(retrain.call))]
    /\ retrain' = [retrain EXCEPT !.at = "set_labels"]
    /\ UNCHANGED <<spacy_textcat, rasa_intent_labels, nert_intent_labels, crf_model,
                   crf_loaded, nlp, pc, last, statusVars>>

\* _rasa_intent_labels = classes / _nert_intent_labels = classes; the rasa
\* call returns here, the NERT call when it has fitted no sequence tagger
SetLabels ==
    /\ retrain.at = "set_labels"
    /\ IF retrain.call.engine = "rasa"
       THEN rasa_intent_labels' = retrain.model.classes /\ UNCHANGED nert_intent_labels
       ELSE nert_intent_labels' = retrain.model.classes /\ UNCHANGED rasa_intent_labels
    /\ retrain' = IF IsNone(retrain.crf) THEN NoRetrain
                  ELSE [retrain EXCEPT !.at = "set_crf"]
    /\ UNCHANGED <<spacy_textcat, rasa_intent_model, nert_intent_model, crf_model,
                   crf_loaded, nlp, trainedWith, pc, last, statusVars>>

\* _crf_model = crf_model
SetCrf ==
    /\ retrain.at = "set_crf"
    /\ crf_model' = retrain.crf
    /\ retrain' = [retrain EXCEPT !.at = "set_crf_loaded"]
    /\ UNCHANGED <<spacy_textcat, rasa_intent_model, rasa_intent_labels,
                   nert_intent_model, nert_intent_labels, crf_loaded, nlp, trainedWith,
                   pc, last, statusVars>>

\* _crf_loaded = True, and the call returns
SetCrfLoaded ==
    /\ retrain.at = "set_crf_loaded"
    /\ crf_loaded' = TRUE
    /\ retrain' = NoRetrain
    /\ UNCHANGED <<spacy_textcat, rasa_intent_model, rasa_intent_labels,
                   nert_intent_model, nert_intent_labels, crf_model, nlp, trainedWith,
                   pc, last, statusVars>>

NextRetrain ==
    \/ TrainCall \/ ClearModel \/ ClearLabels \/ ClearCrf \/ Fit
    \/ SetModel \/ SetLabels \/ SetCrf \/ SetCrfLoaded
    \/ Predict \/ Respond

SpecRetrain == Init /\ [][NextRetrain]_vars

-----------------------------------------------------------------------------
(* Background training: train_routes.  start_training is a def route, run   *)
(* on a server thread; _train_worker runs on the thread it starts.  The     *)
(* module has no lock, so every thread is taken statement by statement:     *)
(* pc names the statement a thread is at, call the _update_status call it   *)
(* is inside (call.at is the next of its six statements that assigns, 0     *)
(* outside a call).  An optional argument is <<>> when None and <<v>>       *)
(* otherwise.                                                               *)

\* the statement k of _update_status, called with c, assigns when it is reached
Assigns(c, k) ==
    CASE k = 1 -> c.state # <<>>
      [] k = 2 -> c.progress # <<>>
      [] k = 3 -> c.message # <<>>
      [] k = 4 -> c.error # <<>>
      [] k = 5 -> c.state = <<"running">>
      [] k = 6 -> c.state \in {<<"completed">>, <<"failed">>}
      [] OTHER -> FALSE

\* the call c at its first statement from k on whose test of the arguments
\* passes; past the last one the call has returned
RECURSIVE At(_, _)
At(c, k) ==
    IF k > 6 THEN NoCall
    ELSE IF Assigns(c, k) THEN [c EXCEPT !.at = k]
    ELSE At(c, k + 1)

Call(state, progress, message, error) ==
    At([at |-> 1, state |-> state, progress |-> progress, message |-> message,
        error |-> error], 1)

\* the statement c.at of _update_status, on the status dict
UpdateStatus(status, c) ==
    CASE c.at = 1 -> [status EXCEPT !.state = c.state[1]]
      [] c.at = 2 -> [status EXCEPT !.progress = Max(0, Min(100, c.progress[1]))]
      [] c.at = 3 -> [status EXCEPT !.message = c.message[1]]
      [] c.at = 4 -> [status EXCEPT !.error = c.error]
      [] c.at = 5 -> IF status.started_at = <<>>
                     THEN [status EXCEPT !.started_at = <<TRUE>>] ELSE status
      [] c.at = 6 -> [status EXCEPT !.finished_at = <<TRUE>>]

\* the call after its statement c.at
Advance(c) == At(c, c.at + 1)

\* what ends a worker early: no annotations, or the database call raising
WorkerErrors == {"No annotations available for this dataset.", "database unavailable"}

Alive(w) == workers[w].pc # "none"

\* start_training, line 76: the check of the state.  (A request thread of
\* the model takes a new request when the worker it started is gone.)
StartCheck(r) ==
    /\ starts[r].pc = "idle"
    /\ ~Alive(r)
    /\ starts' = [starts EXCEPT ![r].pc = IF TRAIN_STATUS.state = "running"
                                          THEN "rejected" ELSE "accepted"]
    /\ UNCHANGED <<slots, trainedWith, pc, last, retrain, TRAIN_STATUS, workers>>

\* start_training, line 79: _update_status("running", 0, "Initializing training...", None)
StartUpdate(r) ==
    /\ starts[r].pc = "accepted"
    /\ starts' = [starts EXCEPT
                     ![r] = [pc |-> "initializing",
                             call |-> Call(<<"running">>, <<0>>,
                                           <<"Initializing training...">>, <<>>)]]
    /\ UNCHANGED <<slots, trainedWith, pc, last, retrain, TRAIN_STATUS, workers>>

\* one statement of the _update_status call of a request thread
StartStatement(r) ==
    /\ starts[r].call.at > 0
    /\ TRAIN_STATUS' = UpdateStatus(TRAIN_STATUS, starts[r].call)
    /\ starts' = [starts EXCEPT ![r].call = Advance(starts[r].call)]
    /\ UNCHANGED <<slots, trainedWith, pc, last, retrain, workers>>

\* start_training, lines 80-82: the worker thread is created and started
StartThread(r) ==
    /\ starts[r].pc = "initializing"
    /\ starts[r].call.at = 0
    /\ workers' = [workers EXCEPT ![r].pc = "begin"]
    /\ starts' = [starts EXCEPT ![r].pc = "started"]
    /\ UNCHANGED <<slots, trainedWith, pc, last, retrain, TRAIN_STATUS>>

\* start_training returns "Training already in progress" (line 77) or
\* "Training started" (line 83)
StartReturn(r) ==
    /\ starts[r].pc \in {"rejected", "started"}
    /\ starts' = [starts EXCEPT ![r].pc = "idle"]
    /\ UNCHANGED <<slots, trainedWith, pc, last, retrain, TRAIN_STATUS, workers>>

\* _train_worker, line 52: _update_status("running", 1, "Checking annotations...")
WorkerBegin(w) ==
    /\ workers[w].pc = "begin"
    /\ workers' = [workers EXCEPT
                      ![w] = [pc |-> "checking",
                              call |-> Call(<<"running">>, <<1>>,
                                            <<"Checking annotations...">>, <<>>)]]
    /\ UNCHANGED <<slots, trainedWith, pc, last, retrain, TRAIN_STATUS, starts>>

\* one statement of the _update_status call of a worker
WorkerStatement(w) ==
    /\ workers[w].call.at > 0
    /\ TRAIN_STATUS' = UpdateStatus(TRAIN_STATUS, workers[w].call)
    /\ workers' = [workers EXCEPT ![w].call = Advance(workers[w].call)]
    /\ UNCHANGED <<slots, trainedWith, pc, last, retrain, starts>>

\* _train_worker, lines 54-62 and 64-65: the annotations are found and the
\* worker reports progress 100, or an exception takes it to the handler,
\* which calls _update_status("failed", error=str(e), message=...)
WorkerLookup(w) ==
    /\ workers[w].pc = "checking"
    /\ workers[w].call.at = 0
    /\ \/ workers' = [workers EXCEPT
                         ![w] = [pc |-> "skipped",
                                 call |-> Call(<<>>, <<100>>,
                                               <<"Training skipped (transformer models disabled).">>,
                                               <<>>)]]
       \/ \E e \in WorkerErrors :
             workers' = [workers EXCEPT
                            ![w] = [pc |-> "finishing",
                                    call |-> Call(<<"failed">>, <<>>,
                                                  <<"Training failed: " \o e>>, <<e>>)]]
    /\ UNCHANGED <<slots, trainedWith, pc, last, retrain, TRAIN_STATUS, starts>>

\* _train_worker, line 63: _update_status("completed", 100, message or "Training complete.")
WorkerComplete(w) ==
    /\ workers[w].pc = "skipped"
    /\ workers[w].call.at = 0
    /\ workers' = [workers EXCEPT
                      ![w] = [pc |-> "finishing",
                              call |-> Call(<<"completed">>, <<100>>,
                                            <<IF TRAIN_STATUS.message # ""
                                              THEN TRAIN_STATUS.message
                                              ELSE "Training complete.">>, <<>>)]]
    /\ UNCHANGED <<slots, trainedWith, pc, last, retrain, TRAIN_STATUS, starts>>

\* _train_worker returns and its thread ends
WorkerExit(w) ==
    /\ workers[w].pc = "finishing"
    /\ workers[w].call.at = 0
    /\ workers' = [workers EXCEPT ![w].pc = "none"]
    /\ UNCHANGED <<slots, trainedWith, pc, last, retrain, TRAIN_STATUS, starts>>

\* training_status: the handler reads the status dict and returns it, so
\* what a status query answers in a state is TRAIN_STATUS there
TrainingStatus == UNCHANGED vars

StartStep(r) ==
    StartCheck(r) \/ StartUpdate(r) \/ StartStatement(r) \/ StartThread(r) \/ StartReturn(r)

WorkerStep(w) ==
    WorkerBegin(w) \/ WorkerStatement(w) \/ WorkerLookup(w) \/ WorkerComplete(w)
        \/ WorkerExit(w)

StartTraining == \E r \in Starters : StartStep(r)

TrainWorker == \E w \in Starters : WorkerStep(w)

NextStatus == StartTraining \/ TrainWorker \/ TrainingStatus

\* a thread that can take a step takes one: the server's threads and the
\* worker threads are scheduled by the operating system
SpecStatus ==
    /\ Init
    /\ [][NextStatus]_vars
    /\ \A t \in Starters : WF_vars(StartStep(t)) /\ WF_vars(WorkerStep(t))

-----------------------------------------------------------------------------
(* The evaluation route: run_evaluation.  train_pct is an integer (the      *)
(* field's default is 80); indices are Python's, from 0.  The library call  *)
(* train_test_split is not part of the repository: it raises, or it returns *)
(* a partition of the indices whose train part has floor(n * train_size)    *)
(* members, which ones being the library's choice (lib).  Index lists are   *)
(* kept in ascending order.  Metrics are in hundredths, rounded down.       *)

MaxEval == 2    \* examples of an evaluate request

EvalTexts == SeqsUpTo({"go", " pizza tea "}, MaxEval)

\* true intents as a caller writes them; "x" is an intent no model predicts
EvalLabelSet == RawLabels \cup {"x"}

EvalIntents == SeqsUpTo(EvalLabelSet, MaxEval)

\* train_pct of a request: below, inside and above 0..100
TrainPcts == {-10, 0, 50, 80, 100, 150}

EvalLabelTable == [l \in EvalLabelSet |-> Lower(Strip(l))]

\* allowed_intents of a request: none, or a label that is not in the data
AllowedIntents == {<<>>, <<"Z">>}

\* str(x).lower() on the allowed intents
AllowedTable ==
    [l \in UNION {{a[i] : i \in 1..Len(a)} : a \in AllowedIntents} |-> Lower(l)]

\* a wrong variant of InvalidEvalInput: a single example is refused as well
InvalidEvalInputSingle(texts, true_intents) ==
    Len(texts) <= 1 \/ true_intents = <<>> \/ Len(texts) # Len(true_intents)

\* "not req.texts or not req.true_intents or len(req.texts) != len(req.true_intents)"
InvalidEvalInput(texts, true_intents) ==
    texts = <<>> \/ true_intents = <<>> \/ Len(texts) # Len(true_intents)

\* train_frac, in hundredths
TrainPercent(train_pct) == Max(0, Min(100, train_pct))

\* int(n * train_frac), which is floor(n * train_size) as well
TrainSize(n, pct) == (n * pct) \div 100

Values(seq) == {seq[i] : i \in 1..Len(seq)}

Occurrences(seq, v) == Cardinality({i \in 1..Len(seq) : seq[i] = v})

RECURSIVE Ascending(_)
Ascending(S) ==
    IF S = {} THEN <<>>
    ELSE LET least == CHOOSE x \in S : \A y \in S : x <= y
         IN  <<least>> \o Ascending(S \ {least})

\* train_test_split raises ValueError: train_size is not inside (0, 1), the
\* train part would be empty, or the stratified split is infeasible (a
\* class with one member, or fewer train or test places than classes)
SplitRaises(n, pct, true_intents) ==
    \/ pct = 0
    \/ pct = 100
    \/ TrainSize(n, pct) = 0
    \/ /\ Cardinality(Values(true_intents)) > 1
       /\ \/ \E c \in Values(true_intents) : Occurrences(true_intents, c) < 2
          \/ TrainSize(n, pct) < Cardinality(Values(true_intents))
          \/ n - TrainSize(n, pct) < Cardinality(Values(true_intents))

\* what the library call can do: raise, or choose the train indices
LibOutcomes(n, pct, true_intents) ==
    {[raises |-> TRUE, chosen |-> {}]}
    \cup IF SplitRaises(n, pct, true_intents) THEN {}
         ELSE {[raises |-> FALSE, chosen |-> S] :
                  S \in {T \in SUBSET (0..(n - 1)) : Cardinality(T) = TrainSize(n, pct)}}

\* the except branch: the positional split
FallbackSplit(n, pct) ==
    [train_idx |-> [i \in 1..TrainSize(n, pct) |-> i - 1],
     test_idx |-> [i \in 1..(n - TrainSize(n, pct)) |-> TrainSize(n, pct) + i - 1]]

\* lines 120-131: the split of the library, or the positional one
SplitIndices(n, pct, lib) ==
    IF lib.raises THEN FallbackSplit(n, pct)
    ELSE [train_idx |-> Ascending(lib.chosen),
          test_idx |-> Ascending((0..(n - 1)) \ lib.chosen)]

\* a wrong variant of RepairTestSet: the split is kept as it is
KeepSplit(split) == split

\* lines 133-139: an empty test set gets the last train index, or index 0
RepairTestSet(split) ==
    IF Len(split.test_idx) # 0 THEN split
    ELSE IF Len(split.train_idx) > 0
    THEN [train_idx |-> SubSeq(split.train_idx, 1, Len(split.train_idx) - 1),
          test_idx |-> <<split.train_idx[Len(split.train_idx)]>>]
    ELSE [train_idx |-> <<>>, test_idx |-> <<0>>]

\* [seq[int(i)] for i in idx]
Take(seq, idx) == [k \in 1..Len(idx) |-> seq[idx[k] + 1]]

\* a ratio with zero_division=0
Ratio(num, den) == IF den = 0 THEN 0 ELSE (100 * num) \div den

TruePositives(y_true, y_pred, l) ==
    Cardinality({i \in 1..Len(y_true) : y_true[i] = l /\ y_pred[i] = l})

RECURSIVE SumOver(_, _, _, _)
SumOver(y_true, y_pred, labels, k) ==
    IF labels = {} THEN 0
    ELSE LET l == CHOOSE x \in labels : TRUE
             tp == TruePositives(y_true, y_pred, l)
             one == CASE k = "precision" -> Ratio(tp, Occurrences(y_pred, l))
                      [] k = "recall" -> Ratio(tp, Occurrences(y_true, l))
                      [] k = "f1" -> Ratio(2 * tp, Occurrences(y_pred, l)
                                                     + Occurrences(y_true, l))
         IN  one + SumOver(y_true, y_pred, labels \ {l}, k)

\* the macro average of a per-label score
Macro(y_true, y_pred, k) ==
    SumOver(y_true, y_pred, Values(y_true) \cup Values(y_pred), k)
        \div Cardinality(Values(y_true) \cup Values(y_pred))

\* metrics_summary
MetricsSummary(y_true, y_pred) ==
    IF y_true = <<>>
    THEN [accuracy |-> 0, precision |-> 0, recall |-> 0, f1 |-> 0]
    ELSE [accuracy |-> Ratio(Cardinality({i \in 1..Len(y_true) : y_true[i] = y_pred[i]}),
                             Len(y_true)),
          precision |-> Macro(y_true, y_pred, "precision"),
          recall |-> Macro(y_true, y_pred, "recall"),
          f1 |-> Macro(y_true, y_pred, "f1")]

\* the labels an evaluation can meet, in Python's string order, for sorted(...)
EvalOrder == <<"a", "b", "error", "greet", "unknown", "x", "z">>

\* sorted(S)
Sorted(S) == SelectSeq(EvalOrder, LAMBDA l : l \in S)

\* per_intent_report: one row per label of sorted(set(y_true) | set(y_pred));
\* the library raises on lists of different lengths, and the rows are zero
PerIntentReport(y_true, y_pred) ==
    LET labels == Sorted(Values(y_true) \cup Values(y_pred))
    IN  [i \in 1..Len(labels) |->
            IF Len(y_true) # Len(y_pred)
            THEN [intent |-> labels[i], precision |-> 0, recall |-> 0, f1 |-> 0, support |-> 0]
            ELSE [intent |-> labels[i],
                  precision |-> Ratio(TruePositives(y_true, y_pred, labels[i]),
                                      Occurrences(y_pred, labels[i])),
                  recall |-> Ratio(TruePositives(y_true, y_pred, labels[i]),
                                   Occurrences(y_true, labels[i])),
                  f1 |-> Ratio(2 * TruePositives(y_true, y_pred, labels[i]),
                               Occurrences(y_pred, labels[i]) + Occurrences(y_true, labels[i])),
                  support |-> Occurrences(y_true, labels[i])]]

\* build_confusion with the labels run_evaluation passes: matrix[i][j] counts
\* the examples of true label i predicted as label j
BuildConfusion(y_true, y_pred, labels) ==
    IF labels = <<>> THEN [labels |-> <<>>, matrix |-> <<>>]
    ELSE [labels |-> labels,
          matrix |-> [i \in 1..Len(labels) |-> [j \in 1..Len(labels) |->
                        IF Len(y_true) # Len(y_pred) THEN 0
                        ELSE Cardinality({k \in 1..Len(y_true) :
                                             y_true[k] = labels[i] /\ y_pred[k] = labels[j]})]]]

\* lines 186-189: the labels of the confusion matrix
ConfusionLabels(y_true, y_pred, allowed) ==
    Sorted(Values(y_true) \cup Values(y_pred)
           \cup {AllowedTable[allowed[i]] : i \in 1..Len(allowed)})

\* the request has failed with an HTTP status
EvalFailure(st, code) ==
    [status |-> code, metrics |-> <<>>, train_samples |-> 0, test_samples |-> 0,
     train_idx |-> <<>>, test_idx |-> <<>>, y_true |-> <<>>, y_pred |-> <<>>,
     per_intent |-> <<>>, confusion |-> [labels |-> <<>>, matrix |-> <<>>],
     predicted |-> FALSE, st |-> st]

\* lines 181-213: the report on the true and the predicted intents
Report(y_true, y_pred, split, allowed, st) ==
    [status |-> 200,
     metrics |-> MetricsSummary(y_true, y_pred),
     train_samples |-> Len(split.train_idx), test_samples |-> Len(split.test_idx),
     train_idx |-> split.train_idx, test_idx |-> split.test_idx,
     y_true |-> y_true, y_pred |-> y_pred,
     per_intent |-> PerIntentReport(y_true, y_pred),
     confusion |-> BuildConfusion(y_true, y_pred, ConfusionLabels(y_true, y_pred, allowed)),
     predicted |-> TRUE, st |-> st]

\* lines 161-213: the intents are stripped and lower-cased, then reported
EvalReport(raw, y_test, split, allowed) ==
    Report([i \in 1..Len(y_test) |-> EvalLabelTable[y_test[i]]],
           [i \in 1..Len(raw.predictions) |-> PredictedTable[raw.predictions[i].intent]],
           split, allowed, raw.st)

\* a wrong variant of EvalAnswer: a prediction that failed fails the request
EvalAnswerStrict(raw, y_test, split, allowed) ==
    IF raw.status # 200 \/ \E i \in 1..Len(raw.predictions) :
                              raw.predictions[i].intent = "error"
    THEN EvalFailure(raw.st, 500)
    ELSE EvalReport(raw, y_test, split, allowed)

\* lines 154-159: an HTTPException of predict_batch goes out as it is
EvalAnswer(raw, y_test, split, allowed) ==
    IF raw.status # 200 THEN EvalFailure(raw.st, raw.status)
    ELSE EvalReport(raw, y_test, split, allowed)

\* lines 141-159, on the test part of the split
EvalPredict(st, texts, true_intents, model_id, split, allowed, env) ==
    EvalAnswer(PredictBatchHandler(st, Take(texts, split.test_idx),
                                   IF model_id = "none" THEN "spacy" ELSE model_id, env),
               Take(true_intents, split.test_idx), split, allowed)

\* run_evaluation: the handler
RunEvaluation(st, texts, true_intents, model_id, train_pct, allowed, lib, env) ==
    IF InvalidEvalInput(texts, true_intents) THEN EvalFailure(st, 400)
    ELSE EvalPredict(st, texts, true_intents, model_id,
                     RepairTestSet(SplitIndices(Len(texts), TrainPercent(train_pct), lib)),
                     allowed, env)

\* the library outcomes of a request; an invalid request never reaches the call
EvalLibOutcomes(texts, true_intents, train_pct) ==
    IF InvalidEvalInput(texts, true_intents) THEN {[raises |-> TRUE, chosen |-> {}]}
    ELSE LibOutcomes(Len(texts), TrainPercent(train_pct), true_intents)

\* an evaluate call is answered
EvaluateCall(texts, true_intents, model_id, train_pct, allowed, lib, env) ==
    Answered([op |-> "evaluate", model_id |-> model_id, texts |-> texts,
              true_intents |-> true_intents, train_pct |-> train_pct,
              allowed_intents |-> allowed, lib |-> lib, before |-> Globals],
             RunEvaluation(Globals, texts, true_intents, model_id, train_pct, allowed, lib, env))

Evaluate ==
    /\ pc = "serve"
    /\ \E texts \in EvalTexts, true_intents \in EvalIntents, model_id \in SuggestModelIds,
          train_pct \in TrainPcts, allowed \in AllowedIntents :
       \E lib \in EvalLibOutcomes(texts, true_intents, train_pct),
          env \in EnvsFor(EngineOf(model_id)) :
          EvaluateCall(texts, true_intents, model_id, train_pct, allowed, lib, env)

NextEval == TrainRasa \/ Evaluate \/ Respond

SpecEval == Init /\ [][NextEval]_vars

-----------------------------------------------------------------------------
(* The sequence tagger's conversions on their own: _token_offsets and       *)
(* _bio_to_spans applied to a text, a token list and a tag list of the      *)
(* same length                                                              *)

\* the longest token list of a call, apart from the tokens of BioExample
MaxTokens == 3

BioTexts == {"a b a", "B a"}

BioTokens == {"a", "b", "c"}

BioTags == {"O", "B-CITY", "I-CITY", "B-DATE", "I-DATE"}

\* the text of the spec's scenario, tokenized as the tagger tokenizes it
BioExample == "go new york now"

BioCalls ==
    {[op |-> "bio", text |-> t, tokens |-> tk, labels |-> tg] :
        t \in BioTexts,
        tk \in SeqsUpTo(BioTokens, MaxTokens),
        tg \in SeqsUpTo(BioTags, MaxTokens)}
    \cup
    {[op |-> "bio", text |-> BioExample, tokens |-> TokenizeForCrf(BioExample), labels |-> tg] :
        tg \in SeqsUpTo(BioTags, Len(TokenizeForCrf(BioExample)))}

InitBio ==
    /\ spacy_textcat = NoModel
    /\ rasa_intent_model = NoModel
    /\ rasa_intent_labels = NoLabels
    /\ nert_intent_model = NoModel
    /\ nert_intent_labels = NoLabels
    /\ crf_model = NoModel
    /\ crf_loaded = FALSE
    /\ nlp = FALSE
    /\ trainedWith = [e \in Engines |-> {}]
    /\ Quiet
    /\ pc = "call"
    /\ last \in {[request |-> c, response |-> <<>>] :
                   c \in {b \in BioCalls : Len(b.tokens) = Len(b.labels)}}

CallTokenOffsets ==
    /\ pc = "call"
    /\ pc' = "offsets"
    /\ last' = [last EXCEPT !.response = TokenOffsets(last.request.text, last.request.tokens)]
    /\ UNCHANGED <<slots, trainedWith, background>>

CallBioToSpans ==
    /\ pc = "call"
    /\ pc' = "spans"
    /\ last' = [last EXCEPT !.response =
                    BioToSpans(last.request.tokens, last.request.labels, last.request.text)]
    /\ UNCHANGED <<slots, trainedWith, background>>

NextBio == CallTokenOffsets \/ CallBioToSpans

SpecBio == InitBio /\ [][NextBio]_vars

-----------------------------------------------------------------------------
(* The rule extractors on their own: _extract_travel_entities,              *)
(* _extract_food_entities and _extract_health_entities applied to a text    *)

\* the most words of a text, apart from TravelExample
MaxWords == 2

\* vocabulary words, and longer words that hold one
RuleWords ==
    {"tea", "team", "one", "phone", "ent", "appointment", "flight", "businessman", "fever"}

\* the text of the spec's travel scenario
TravelExample == "book a flight from Delhi to Mumbai tomorrow"

\* " ".join(words)
RECURSIVE JoinWords(_)
JoinWords(words) ==
    IF words = <<>> THEN ""
    ELSE IF Len(words) = 1 THEN words[1]
    ELSE words[1] \o " " \o JoinWords(Tail(words))

RuleTexts == {JoinWords(w) : w \in SeqsUpTo(RuleWords, MaxWords)} \cup {TravelExample}

InitRules ==
    /\ spacy_textcat = NoModel
    /\ rasa_intent_model = NoModel
    /\ rasa_intent_labels = NoLabels
    /\ nert_intent_model = NoModel
    /\ nert_intent_labels = NoLabels
    /\ crf_model = NoModel
    /\ crf_loaded = FALSE
    /\ nlp = FALSE
    /\ trainedWith = [e \in Engines |-> {}]
    /\ Quiet
    /\ pc = "call"
    /\ last \in {[request |-> [op |-> "extract", text |-> t], response |-> <<>>] :
                   t \in RuleTexts}

CallExtractTravel ==
    /\ pc = "call"
    /\ pc' = "travel"
    /\ last' = [last EXCEPT !.response = ExtractTravelEntities(last.request.text)]
    /\ UNCHANGED <<slots, trainedWith, background>>

CallExtractFood ==
    /\ pc = "call"
    /\ pc' = "food"
    /\ last' = [last EXCEPT !.response = ExtractFoodEntities(last.request.text)]
    /\ UNCHANGED <<slots, trainedWith, background>>

CallExtractHealth ==
    /\ pc = "call"
    /\ pc' = "health"
    /\ last' = [last EXCEPT !.response = ExtractHealthEntities(last.request.text)]
    /\ UNCHANGED <<slots, trainedWith, background>>

NextRules == CallExtractTravel \/ CallExtractFood \/ CallExtractHealth

SpecRules == InitRules /\ [][NextRules]_vars

-----------------------------------------------------------------------------------------------------------------------------------------------------
(* All the routes of the service together: train and predict calls, and     *)
(* between them predict_batch, suggest and evaluate calls on any engine,    *)
(* one call after the other.  The calls in between are made on one list of  *)
(* texts: what they do to the slots depends on the engine and on the world  *)
(* outside, not on the texts.                                               *)

\* the texts, and the true intents, of the calls made in between
BetweenTexts == <<"go", " pizza tea ">>
BetweenIntents == <<"a", " B">>

BatchBetween ==
    /\ pc = "serve"
    /\ \E model_id \in ModelIds :
       \E env \in EnvsFor(EngineOf(model_id)) : BatchCall(BetweenTexts, model_id, env)

SuggestBetween ==
    /\ pc = "serve"
    /\ \E model_id \in ModelIds, actual_intents \in {<<>>, BetweenIntents} :
       \E env \in EnvsFor(EngineOf(model_id)) :
          SuggestCall(BetweenTexts, actual_intents, model_id, <<>>, env)

EvaluateBetween ==
    /\ pc = "serve"
    /\ \E model_id \in ModelIds :
       \E lib \in EvalLibOutcomes(BetweenTexts, BetweenIntents, 50),
          env \in EnvsFor(EngineOf(model_id)) :
          EvaluateCall(BetweenTexts, BetweenIntents, model_id, 50, <<>>, lib, env)

NextService ==
    \/ TrainSpacy
    \/ TrainRasa
    \/ TrainNertLite
    \/ Predict
    \/ BatchBetween
    \/ SuggestBetween
    \/ EvaluateBetween
    \/ Respond

SpecService == Init /\ [][NextService]_vars

-----------------------------------------------------------------------------
(* Properties of predict_batch (SpecBatch)                                  *)

BatchAnswered == pc = "answered" /\ last.request.op = "predict_batch"

\* the globals when pass i of the answered batch starts
BatchStateAt(i) ==
    BatchLoop(last.request.before, last.request.texts, EngineOf(last.request.model_id),
              last.request.env, i - 1).st

\* what predict returns or raises for item i of the answered batch
BatchSingle(i) ==
    PredictHandler(BatchStateAt(i), last.request.texts[i], EngineOf(last.request.model_id),
                   last.request.env)

IsErrorEntry(e) == e.intent = "error" /\ e.confidence = 0

\* C1: for every non-empty list of texts, every engine id and every state of
\* the slots, predict_batch answers with exactly one entry per text, entry i
\* being the entry of texts[i]; a failing item never aborts the batch
C1_BatchTotal ==
    (BatchAnswered /\ last.request.texts # <<>>) =>
        /\ last.response.status = 200
        /\ Len(last.response.predictions) = Len(last.request.texts)
        /\ \A i \in 1..Len(last.request.texts) :
              last.response.predictions[i].text = Strip(last.request.texts[i])

\* a batch of several texts whose first predict raised and whose second item
\* was still answered
C1_Witness ==
    /\ BatchAnswered
    /\ Len(last.request.texts) >= 2
    /\ IsErrorEntry(last.response.predictions[1])
    /\ BatchSingle(1).status # 200
    /\ Len(last.response.predictions) >= 2

-----------------------------------------------------------------------------
(* Properties of the reconciler (SpecDedup)                                 *)

\* the character positions [start, end) of a span
Positions(e) == e.start..(e.end - 1)

\* intersection over union of the positions of two spans is at least 0.8
HeavyOverlap(a, b) ==
    LET inter == Cardinality(Positions(a) \cap Positions(b))
        union == Cardinality(Positions(a) \cup Positions(b))
    IN  union > 0 /\ 100 * inter >= IouThreshold * union

SameLabel(a, b) == Lower(a.label) = Lower(b.label)

\* C2: the list the reconciler returns holds no two distinct spans of one
\* label (compared without case) whose IoU is 0.8 or more
C2_NoHeavyOverlap ==
    pc = "reconciled" =>
        \A i, j \in 1..Len(last.response) :
            (i # j /\ SameLabel(last.response[i], last.response[j]))
                => ~HeavyOverlap(last.response[i], last.response[j])

\* an input with two spans of one label written in different case and of IoU
\* 0.8 or more, reconciled to a list that still holds several spans
C2_Witness ==
    /\ pc = "reconciled"
    /\ \E i, j \in 1..Len(last.request.entities) :
          /\ i # j
          /\ last.request.entities[i].label # last.request.entities[j].label
          /\ SameLabel(last.request.entities[i], last.request.entities[j])
          /\ HeavyOverlap(last.request.entities[i], last.request.entities[j])
    /\ Len(last.response) >= 2
    /\ Len(last.response) < Len(last.request.entities)

-----------------------------------------------------------------------------
(* Properties of suggest (SpecSuggest)                                      *)

SuggestAnswered ==
    pc = "answered" /\ last.request.op = "suggest" /\ last.response.status = 200

GroundTruth == Len(last.request.actual_intents) = Len(last.request.texts)

\* prediction i of the answered suggest is wrong against its ground truth
IsWrong(i) ==
    Lower(Strip(last.response.predictions[i].intent))
        # Lower(Strip(last.request.actual_intents[i]))

Unsure(i, thr) == last.response.predictions[i].confidence <= thr

\* the item of prediction i, flagged
ItemOf(i, flag) ==
    [text |-> last.response.predictions[i].text,
     predicted_intent |-> last.response.predictions[i].intent,
     predicted_confidence |-> last.response.predictions[i].confidence,
     is_wrong |-> flag]

\* the returned items are, as a bag, the items of the predictions in chosen
SameBag(items, chosen) ==
    /\ Len(items) = Len(chosen)
    /\ \A k \in 1..Len(items) :
          Cardinality({m \in 1..Len(items) : items[m] = items[k]})
              = Cardinality({m \in 1..Len(chosen) : chosen[m] = items[k]})

RECURSIVE ChosenWithTruth(_, _)
ChosenWithTruth(n, thr) ==
    IF n = 0 THEN <<>>
    ELSE ChosenWithTruth(n - 1, thr)
         \o (IF IsWrong(n) THEN <<ItemOf(n, "true")>>
             ELSE IF Unsure(n, thr) THEN <<ItemOf(n, "false")>> ELSE <<>>)

RECURSIVE ChosenUnsure(_, _)
ChosenUnsure(n, thr) ==
    IF n = 0 THEN <<>>
    ELSE ChosenUnsure(n - 1, thr)
         \o (IF Unsure(n, thr) THEN <<ItemOf(n, "null")>> ELSE <<>>)

C4_ConfidenceOnlyFilter ==
    (SuggestAnswered /\ ~GroundTruth) =>
        SameBag(last.response.items,
                ChosenUnsure(Len(last.request.texts), last.response.threshold))

\* actual_intents of another length than texts: one prediction is returned,
\* flagged null, and a confident one is left out
C4_Witness ==
    /\ SuggestAnswered /\ ~GroundTruth
    /\ last.request.actual_intents # <<>>
    /\ Len(last.response.items) = 1
    /\ last.response.items[1].is_wrong = "null"
    /\ last.response.items[1].predicted_confidence > 0
    /\ \E i \in 1..Len(last.request.texts) : ~Unsure(i, last.response.threshold)

\* C5: in the returned list every item flagged true comes before every item
\* flagged false or null, and within each of the two groups the confidences
\* never decrease
C5_Ordering ==
    SuggestAnswered =>
        \A k, m \in 1..Len(last.response.items) :
            k < m =>
                LET x == last.response.items[k]
                    y == last.response.items[m]
                IN  /\ ~(x.is_wrong # "true" /\ y.is_wrong = "true")
                    /\ ((x.is_wrong = "true") = (y.is_wrong = "true"))
                          => x.predicted_confidence <= y.predicted_confidence

\* the sort moved a wrong prediction in front of a correct one of lower
\* confidence that came first in the request
C5_Witness ==
    /\ SuggestAnswered
    /\ Len(last.response.items) = 2
    /\ last.response.items[1].is_wrong = "true"
    /\ last.response.items[2].is_wrong = "false"
    /\ last.response.items[1].predicted_confidence > last.response.items[2].predicted_confidence
    /\ last.response.predictions[1].text = last.response.items[2].text
    /\ last.response.predictions[2].text = last.response.items[1].text
    /\ last.response.items[1].text # last.response.items[2].text

\* C6, as stated: for every threshold t the caller supplies, t = 0 included,
\* the response reports t and the filter uses t; the default is used only
\* when the caller supplies none
C6_AsStated ==
    SuggestAnswered =>
        IF last.request.threshold = <<>>
        THEN last.response.threshold = DefaultThreshold
        ELSE /\ last.response.threshold = last.request.threshold[1]
             /\ \A k \in 1..Len(last.response.items) :
                   last.response.items[k].is_wrong # "true"
                       => last.response.items[k].predicted_confidence
                              <= last.request.threshold[1]

-----------------------------------------------------------------------------
(* Properties of train and predict (Spec)                                   *)

PredictAnswered == pc = "answered" /\ last.request.op = "predict"

\* the intent classifier in the slot of an engine
IntentSlot(engine) ==
    CASE engine = "spacy" -> spacy_textcat
      [] engine = "rasa" -> rasa_intent_model
      [] engine = "nert" -> nert_intent_model

\* what the caller of predict sees
Visible(r) == <<r.status, r.intent, r.confidence, r.entities>>

\* the status of the not-trained error
NotTrainedStatus == 503

\* C7: after a successful train of rasa-lite or NERT-lite whose labels have
\* one distinct value L (trimmed, lower-cased), and until the next train of
\* that engine, predict on it returns L with confidence 1.0 for every
\* non-blank text
C7_SingleLabel ==
    \A engine \in {"rasa", "nert"} :
        Cardinality(trainedWith[engine]) = 1 =>
            /\ \A text \in ModelTexts, env \in EnvsFor(engine) :
                  /\ PredictHandler(Globals, text, engine, env).status = 200
                  /\ {PredictHandler(Globals, text, engine, env).intent} = trainedWith[engine]
                  /\ PredictHandler(Globals, text, engine, env).confidence = 100
            /\ (PredictAnswered /\ EngineOf(last.request.model_id) = engine
                    /\ Strip(last.request.text) # "")
                  => /\ last.response.status = 200
                     /\ {last.response.intent} = trainedWith[engine]
                     /\ last.response.confidence = 100

\* NERT-lite trained with the one label " B" has answered a predict
C7_Witness ==
    /\ PredictAnswered
    /\ last.request.model_id = "NERT"
    /\ trainedWith["nert"] = {"b"}
    /\ last.response.intent = "b"
    /\ last.response.confidence = 100

\* C8, as stated: predict on spacy, rasa or nert with no fitted classifier in
\* the slot fails with the not-trained status and returns no prediction
C8_AsStated ==
    (/\ PredictAnswered
     /\ Strip(last.request.text) # ""
     /\ EngineOf(last.request.model_id) \in Engines
     /\ IsNone(IntentSlot(EngineOf(last.request.model_id))))
        => last.response.status = NotTrainedStatus

\* C10, as stated: across a train call on one engine, the result of predict
\* (intent, confidence, entities) on every other engine stays what it was,
\* for every text
C10_AsStated ==
    [][(pc = "serve" /\ last'.request.op = "train") =>
          \A engine \in Engines \ {last'.request.engine} :
              \A text \in ModelTexts, env \in EnvsFor(engine) :
                  Visible(PredictHandler(Globals, text, engine, env))
                      = Visible(PredictHandler(Globals', text, engine, env))]_vars

-----------------------------------------------------------------------------
(* Properties of a train call next to predict calls (SpecRetrain)           *)

\* the globals when the running train call has returned
RetrainOutcome == RetrainResult(retrain.old, retrain.call).st

\* the answered predict is what predict answers on the globals st
SeenWhole(st) ==
    \E env \in EnvsFor(EngineOf(last.request.model_id)) :
        Visible(last.response)
            = Visible(PredictHandler(st, last.request.text, last.request.model_id, env))

\* a predict on the engine of the running train call is answered, and the
\* slot held a model when the train call arrived
PredictDuringRetrain ==
    /\ PredictAnswered
    /\ retrain.at # "idle"
    /\ EngineOf(last.request.model_id) = retrain.call.engine
    /\ Strip(last.request.text) # ""
    /\ ~IsNone(IF retrain.call.engine = "rasa" THEN retrain.old.rasa ELSE retrain.old.nert)

\* the predict did not fail, and it is what predict answers on the complete
\* old state or on the complete new state
SeenOldOrNew ==
    /\ last.response.status = 200
    /\ SeenWhole(retrain.old) \/ SeenWhole(RetrainOutcome)

\* C11, as stated: a predict handled while a train call runs on a slot that
\* held a trained model (the train call is at one of its statements when
\* the predict is handled) does not fail as not-trained, and it sees the
\* complete old state or the complete new state of the slot
C11_AsStated ==
    [][(pc = "serve" /\ retrain.at # "idle")
          => (PredictDuringRetrain => SeenOldOrNew)']_vars

-----------------------------------------------------------------------------
(* Properties of background training (SpecStatus)                           *)

RunningWorkers == {w \in Starters : Alive(w)}

\* the request thread r passes line 76 in this step
Checks(r) == starts[r].pc = "idle" /\ starts'[r].pc \in {"rejected", "accepted"}

\* C12, as stated: at most one training worker runs at a time, and a start
\* request that arrives while a worker runs gets the "already in progress"
\* answer and starts no worker
C12_AsStated ==
    [][/\ Cardinality(RunningWorkers') <= 1
       /\ \A r \in Starters :
             (Checks(r) /\ RunningWorkers # {}) => starts'[r].pc = "rejected"]_vars

\* the state of the status changes to completed or failed from running only
TerminalFromRunning ==
    (TRAIN_STATUS'.state # TRAIN_STATUS.state
        /\ TRAIN_STATUS'.state \in {"completed", "failed"})
      => TRAIN_STATUS.state = "running"

\* once it has left idle the state does not return to it
NeverBackToIdle == TRAIN_STATUS.state # "idle" => TRAIN_STATUS'.state # "idle"

\* a start request that was accepted has set the state before it returns
SetBeforeReturn ==
    \A r \in Starters :
        (starts[r].pc = "started" /\ starts'[r].pc = "idle")
            => TRAIN_STATUS.state \in {"running", "completed", "failed"}

\* every started worker sets the state to completed or failed in the end
WorkersFinish ==
    \A w \in Starters :
        (workers[w].pc = "begin") ~> (TRAIN_STATUS.state \in {"completed", "failed"})

\* C13, as stated: the status follows idle -> running -> {completed, failed}:
\* an accepted start request sets the state to running before it returns,
\* every started worker eventually sets the state to completed or failed,
\* the state changes to completed or failed only from running, and it
\* never returns to idle
C13_AsStated ==
    /\ [][SetBeforeReturn /\ TerminalFromRunning /\ NeverBackToIdle]_vars
    /\ WorkersFinish

\* C14, as stated: whenever the state of the status is failed, its error
\* field is non-null (it holds the message of the exception that ended the
\* worker), and the error stays what it is while the state stays failed,
\* for every status query to retrieve
C14_AsStated ==
    [][/\ TRAIN_STATUS'.state = "failed" => TRAIN_STATUS'.error # <<>>
       /\ (TRAIN_STATUS.state = "failed" /\ TRAIN_STATUS'.state = "failed")
             => TRAIN_STATUS'.error = TRAIN_STATUS.error]_vars

-----------------------------------------------------------------------------
(* Properties of evaluate (SpecEval)                                        *)

EvalAnswered == pc = "answered" /\ last.request.op = "evaluate"

\* the request has n >= 1 examples: as many texts as true intents
EvalExamples ==
    IF Len(last.request.texts) = Len(last.request.true_intents)
    THEN Len(last.request.texts) ELSE 0

C15_LibrarySplit ==
    /\ EvalAnswered
    /\ ~last.request.lib.raises
    /\ last.response.train_idx = <<1>>
    /\ last.response.test_idx = <<0>>

\* C16: evaluate fails with status 400 (InvalidEvaluationInput) exactly when
\* texts is empty, true_intents is empty or their lengths differ, and then
\* nothing was split or predicted and the globals are what they were
C16_InvalidInput ==
    EvalAnswered =>
        /\ last.response.status = 400 <=>
              \/ last.request.texts = <<>>
              \/ last.request.true_intents = <<>>
              \/ Len(last.request.texts) # Len(last.request.true_intents)
        /\ last.response.status = 400 =>
              /\ ~last.response.predicted
              /\ last.response.train_idx = <<>> /\ last.response.test_idx = <<>>
              /\ Globals = last.request.before

\* one text with two true intents was refused
C16_Witness ==
    /\ EvalAnswered
    /\ Len(last.request.texts) = 1
    /\ Len(last.request.true_intents) = 2
    /\ last.response.status = 400

InUnit(v) == v \in 0..100

\* C17: evaluate with one example and train_pct = 0 returns a report with
\* train_samples = 0, test_samples = 1 and accuracy, precision, recall and
\* f1 in [0,1], whether or not the engine is trained
C17_SingleExample ==
    (EvalAnswered /\ EvalExamples = 1 /\ last.request.train_pct = 0) =>
        /\ last.response.status = 200
        /\ last.response.train_samples = 0
        /\ last.response.test_samples = 1
        /\ InUnit(last.response.metrics.accuracy)
        /\ InUnit(last.response.metrics.precision)
        /\ InUnit(last.response.metrics.recall)
        /\ InUnit(last.response.metrics.f1)

\* the one example has the true intent "x" and the default engine, which is
\* not trained, answered "error" for it
C17_Witness ==
    /\ EvalAnswered
    /\ last.request.train_pct = 0
    /\ last.request.true_intents = <<"x">>
    /\ last.request.model_id = "none"
    /\ last.response.status = 200
    /\ last.response.y_pred = <<"error">>
    /\ last.response.metrics.accuracy = 0

\* the one example is evaluated on the trained rasa engine, which is right
C17_Trained ==
    /\ EvalAnswered
    /\ last.request.train_pct = 0
    /\ EvalExamples = 1
    /\ last.request.model_id = "rasa"
    /\ ~IsNone(rasa_intent_model)
    /\ last.response.metrics.f1 = 100

-----------------------------------------------------------------------------
(* Further properties of train and predict (Spec)                           *)

TrainAnswered == pc = "answered" /\ last.request.op = "train"

\* the status of the invalid-training-data error
InvalidTrainingStatus == 400

\* C18: a train call of any of the three engines with no texts (no records),
\* no labels, or texts and labels of different lengths fails with the
\* invalid-training-data status and leaves no model in the slot
C18_InvalidTraining ==
    (/\ TrainAnswered
     /\ \/ last.request.samples = 0
        \/ last.request.labels = <<>>
        \/ last.request.samples # Len(last.request.labels))
        => /\ last.response.status = InvalidTrainingStatus
           /\ IsNone(IntentSlot(last.request.engine))
           /\ trainedWith[last.request.engine] = {}
           /\ last.request.engine = "nert" => IsNone(crf_model)

\* spaCy was given two texts and one label
C18_Witness ==
    /\ TrainAnswered
    /\ last.request.engine = "spacy"
    /\ last.request.samples = 2
    /\ Len(last.request.labels) = 1
    /\ last.response.status = InvalidTrainingStatus
    /\ IsNone(spacy_textcat)

\* NERT-lite was given no records
C18_NoRecords ==
    /\ TrainAnswered
    /\ last.request.engine = "nert"
    /\ last.request.samples = 0
    /\ last.response.status = InvalidTrainingStatus

\* C19, as stated: on an engine whose intent classifier is trained, predict
\* on a non-blank text returns an intent of that classifier whatever the
\* entity extractors do: the sequence tagger absent or raising, the spaCy
\* pipeline failing to load
C19_AsStated ==
    (/\ PredictAnswered
     /\ Strip(last.request.text) # ""
     /\ EngineOf(last.request.model_id) \in Engines
     /\ ~IsNone(IntentSlot(EngineOf(last.request.model_id))))
        => /\ last.response.status = 200
           /\ last.response.intent
                  \in Values(IntentSlot(EngineOf(last.request.model_id)).classes)

-----------------------------------------------------------------------------
(* Further properties of the reconciler (SpecDedup)                         *)

\* the ranges [start, end) of two spans intersect
Intersect(a, b) == Max(a.start, b.start) < Min(a.end, b.end)

\* C20, as stated: no two distinct spans of the reconciler's output with the
\* same label have intersecting ranges, and every start and end of the
\* output is an integer
C20_AsStated ==
    pc = "reconciled" =>
        /\ \A i, j \in 1..Len(last.response) :
              (i # j /\ last.response[i].label = last.response[j].label)
                  => ~Intersect(last.response[i], last.response[j])
        /\ \A i \in 1..Len(last.response) :
              last.response[i].start \in Int /\ last.response[i].end \in Int

-----------------------------------------------------------------------------
(* More properties of the reconciler (SpecDedup)                            *)

\* two spans with the same label (compared without case) and the same offsets
SameKey(a, b) == SameLabel(a, b) /\ a.start = b.start /\ a.end = b.end

\* the input spans that share label and offsets with the input span at i
GroupOf(i) ==
    {j \in 1..Len(last.request.entities) :
        SameKey(last.request.entities[j], last.request.entities[i])}

\* the output spans with the label and offsets of the input span at i
OutputOf(i) ==
    {k \in 1..Len(last.response) :
        SameKey(last.response[k], last.request.entities[i])}

\* the score of every output span of the group is the maximum of the group
MaxScoreOf(i) ==
    \A k \in OutputOf(i) :
        /\ \A j \in GroupOf(i) : last.request.entities[j].score <= last.response[k].score
        /\ \E j \in GroupOf(i) : last.request.entities[j].score = last.response[k].score

\* another input span of the same label, at other offsets, whose IoU with the
\* input span at i is 0.8 or more
HasRival(i) ==
    \E j \in 1..Len(last.request.entities) :
        /\ SameLabel(last.request.entities[j], last.request.entities[i])
        /\ ~SameKey(last.request.entities[j], last.request.entities[i])
        /\ HeavyOverlap(last.request.entities[j], last.request.entities[i])

\* C21, as stated: for every group of input spans with one label and the same
\* well-formed offsets, the output holds exactly one span with that label and
\* those offsets, and its score is the maximum score of the group
C21_AsStated ==
    pc = "reconciled" =>
        \A i \in 1..Len(last.request.entities) :
            WellFormed(last.request.entities[i])
                => Cardinality(OutputOf(i)) = 1 /\ MaxScoreOf(i)

\* C21, amended: for every group of input spans with one label and the same
\* well-formed offsets, the output holds at most one span with that label and
\* those offsets, its score is the maximum score of the group, and it holds
\* exactly one when no other input span of that label overlaps the group with
\* an IoU of 0.8 or more
C21_OnePerKey ==
    pc = "reconciled" =>
        \A i \in 1..Len(last.request.entities) :
            WellFormed(last.request.entities[i])
                => /\ Cardinality(OutputOf(i)) <= 1
                   /\ MaxScoreOf(i)
                   /\ ~HasRival(i) => Cardinality(OutputOf(i)) = 1

\* a reconciled input with two spans of one label and the same well-formed
\* offsets but different scores, the lower score first, of which one is kept
C21_Witness ==
    /\ pc = "reconciled"
    /\ \E i, j \in 1..Len(last.request.entities) :
          /\ i < j
          /\ WellFormed(last.request.entities[i])
          /\ SameKey(last.request.entities[i], last.request.entities[j])
          /\ last.request.entities[i].score < last.request.entities[j].score
          /\ Cardinality(OutputOf(i)) = 1

-----------------------------------------------------------------------------
(* Properties of the sequence tagger's conversions (SpecBio)                *)

IsBeginTag(tag) == Len(tag) >= 2 /\ SubSeq(tag, 1, 2) = "B-"

\* LABEL of a tag B-LABEL or I-LABEL
TagLabel(tag) == SubSeq(tag, 3, Len(tag))

\* the positions of the B- tags of the call
BeginTags == {i \in 1..Len(last.request.labels) : IsBeginTag(last.request.labels[i])}

\* the position of the k-th B- tag of the call
NthBegin(k) == CHOOSE i \in BeginTags : Cardinality({h \in BeginTags : h <= i}) = k

\* the last position of the maximal run of I- tags with the label of the B-
\* tag at i that follows i at once (i itself when there is none)
RunEnd(i) ==
    CHOOSE j \in i..Len(last.request.labels) :
        /\ \A m \in (i + 1)..j :
              last.request.labels[m] = "I-" \o TagLabel(last.request.labels[i])
        /\ j < Len(last.request.labels)
              => last.request.labels[j + 1] # "I-" \o TagLabel(last.request.labels[i])

\* the offsets _token_offsets gives the tokens of the call
CallOffsets == TokenOffsets(last.request.text, last.request.tokens)

\* C22: _bio_to_spans returns one span per B- tag, in tag order; the span of
\* a B- tag runs from the start of its token to the end of the last token of
\* the run of I- tags of its label that follows it, its label is the tag's
\* label in lower case and its text is the text between these offsets (so O
\* tags, and I- tags outside such a run, give no span)
C22_BioToSpans ==
    pc = "spans" =>
        /\ Len(last.response) = Cardinality(BeginTags)
        /\ \A k \in 1..Len(last.response) :
              /\ last.response[k].start = CallOffsets[NthBegin(k)].start
              /\ last.response[k].end = CallOffsets[RunEnd(NthBegin(k))].end
              /\ last.response[k].label = Lower(TagLabel(last.request.labels[NthBegin(k)]))
              /\ last.response[k].text =
                    Slice(last.request.text, last.response[k].start, last.response[k].end)

\* the spec's scenario: the tags O, B-CITY, I-CITY, O over "go new york now"
\* have been converted to the one span city / "new york"
C22_Witness ==
    /\ pc = "spans"
    /\ last.request.text = "go new york now"
    /\ last.request.labels = <<"O", "B-CITY", "I-CITY", "O">>
    /\ Len(last.response) = 1
    /\ last.response[1].label = "city"
    /\ last.response[1].text = "new york"
    /\ last.response[1].start = 3
    /\ last.response[1].end = 11

\* C24, as stated: in the list _token_offsets returns, the start of every
\* token is at or after the end of the token before it
C24_AsStated ==
    pc = "offsets" =>
        \A i \in 2..Len(last.response) :
            last.response[i].start >= last.response[i - 1].end

-----------------------------------------------------------------------------
(* Properties of the rule extractors (SpecRules)                            *)

\* the answer holds a span with this label that covers exactly this text
Emits(label, text) ==
    \E i \in 1..Len(last.response) :
        /\ last.response[i].label = label
        /\ last.response[i].text = text
        /\ Slice(last.request.text, last.response[i].start, last.response[i].end) = text

\* C23, as stated: for "book a flight from Delhi to Mumbai tomorrow" the
\* travel extractor emits a source span covering exactly "Delhi", a
\* destination span covering exactly "Mumbai" and a date span covering
\* exactly "tomorrow"
C23_AsStated ==
    (pc = "travel" /\ last.request.text = TravelExample) =>
        /\ Emits("source", "Delhi")
        /\ Emits("destination", "Mumbai")
        /\ Emits("date", "tomorrow")

\* the text of a span stands in the text of the call as a word of its own:
\* somewhere no letter comes before it and none after it
StandsAlone(e) ==
    LET tl == Lower(last.request.text)
        w == Lower(e.text)
    IN  \E i \in 0..(Len(tl) - Len(w)) :
            /\ StartsAt(tl, i, w)
            /\ (i = 0 \/ ~IsAlpha(CharAt(tl, i)))
            /\ (i + Len(w) = Len(tl) \/ ~IsAlpha(CharAt(tl, i + Len(w) + 1)))

\* C25, as stated: no rule extractor (travel, food, health) emits a span for
\* a word that is in the text only as a part of a longer word of letters
C25_AsStated ==
    pc \in {"travel", "food", "health"} =>
        \A i \in 1..Len(last.response) : StandsAlone(last.response[i])

-----------------------------------------------------------------------------
(* More properties of evaluate (SpecEval)                                   *)

EvalReported == EvalAnswered /\ last.response.status = 200

\* true intents, predicted intents and allowed intents of the answered request
ReportLabelSet ==
    Values(last.response.y_true) \cup Values(last.response.y_pred)
        \cup {Lower(last.request.allowed_intents[i]) :
                 i \in 1..Len(last.request.allowed_intents)}

\* the labels of the per-intent rows, in row order
RowLabels == [i \in 1..Len(last.response.per_intent) |-> last.response.per_intent[i].intent]

\* the confusion matrix has one row and one column per label
SquareConfusion ==
    /\ Len(last.response.confusion.matrix) = Len(last.response.confusion.labels)
    /\ \A i \in 1..Len(last.response.confusion.matrix) :
          Len(last.response.confusion.matrix[i]) = Len(last.response.confusion.labels)

\* C26, as stated: in every report the per-intent rows and the confusion
\* matrix are keyed by the same label list, which holds the true, the
\* predicted and the allowed intents, and the confusion matrix is square
C26_AsStated ==
    EvalReported =>
        /\ RowLabels = last.response.confusion.labels
        /\ Values(last.response.confusion.labels) = ReportLabelSet
        /\ SquareConfusion

-----------------------------------------------------------------------------
(* Properties of the slots over all the routes (SpecService)                *)

\* the answered predict call was made on this engine with a non-blank text
PredictedOn(engine) ==
    /\ PredictAnswered
    /\ EngineOf(last.request.model_id) = engine
    /\ Strip(last.request.text) # ""

\* the answer comes from the classifier the engine was last trained to: it is
\* a prediction, of one of the labels of that train call
FromClassifier(engine) ==
    /\ last.response.status = 200
    /\ last.response.intent \in trainedWith[engine]

\* C27, as stated: from the successful return of a train call on an engine to
\* the start of the next train call on it, every predict on that engine with
\* a non-blank text is answered from the engine's classifier, whatever train,
\* predict, predict_batch, suggest and evaluate calls come in between
C27_AsStated ==
    \A engine \in Engines :
        (trainedWith[engine] # {} /\ PredictedOn(engine)) => FromClassifier(engine)

-----------------------------------------------------------------------------
(* Properties of a failed train call (Spec)                                 *)

\* a train call on this engine has been refused or has failed
TrainFailed(engine) ==
    /\ TrainAnswered
    /\ last.request.engine = engine
    /\ last.response.status # 200

\* C28, as stated: a train call that fails (invalid input, or an exception
\* while fitting) leaves the slot of its engine as it was before the call, so
\* that a predict that succeeded before it is answered by the same model
\* after it
C28_AsStated ==
    [][\A engine \in Engines :
          (pc = "serve" /\ TrainFailed(engine)')
              => IntentSlot(engine)' = IntentSlot(engine)]_vars

-----------------------------------------------------------------------------
(* Properties of the status record over several runs (SpecStatus)           *)

\* a completed run shows no error
CompletedWithoutError == TRAIN_STATUS.state = "completed" => TRAIN_STATUS.error = <<>>

\* a running run shows no finishing time
RunningUnfinished == TRAIN_STATUS.state = "running" => TRAIN_STATUS.finished_at = <<>>

\* the request thread r takes the statement of _update_status that writes
\* started_at (lines 43-44), in the call that accepts its run
Accepts(r) ==
    /\ starts[r].pc = "initializing"
    /\ starts[r].call.at = 5
    /\ starts'[r].call.at # 5

\* started_at is written when a run is accepted: the statement finds no time
\* of an earlier run in the field, which it would leave there
StartedAtAccept == \A r \in Starters : Accepts(r) => TRAIN_STATUS.started_at = <<>>

\* C29, as stated: in every reachable state, over any sequence of runs, a
\* completed status has no error, a running status has no finished_at, and
\* started_at is the time at which the most recent run was accepted
C29_AsStated ==
    /\ [](CompletedWithoutError /\ RunningUnfinished)
    /\ [][StartedAtAccept]_vars

-----------------------------------------------------------------------------
(* The reconciler as a function of its input list (SpecDedup)               *)

\* the spans of a list
SpansOf(seq) == {seq[i] : i \in 1..Len(seq)}

\* the list is in non-increasing order of score
NonIncreasing(seq) == \A i \in 1..(Len(seq) - 1) : seq[i].score >= seq[i + 1].score

\* C30: for every input list of spans, every output span of the reconciler is
\* one of the input spans, the output is in non-increasing order of score,
\* and reconciling the output again returns the same list
C30_Idempotent ==
    pc = "reconciled" =>
        /\ SpansOf(last.response) \subseteq SpansOf(last.request.entities)
        /\ NonIncreasing(last.response)
        /\ DeduplicateEntities(last.response) = last.response

\* a reconciled input of spans in increasing order of score, of which the
\* reconciler dropped at least one and kept at least two of different scores
C30_Witness ==
    /\ pc = "reconciled"
    /\ ~NonIncreasing(last.request.entities)
    /\ Len(last.response) < Len(last.request.entities)
    /\ Len(last.response) >= 2
    /\ last.response[1].score > last.response[Len(last.response)].score

====
